---- MODULE Spec2Model ----
(***************************************************************************)
(* opencode-dotenv: a model of the plugin in src/src/index.ts.             *)
(*                                                                         *)
(* index.ts holds two generations of the plugin that the specification     *)
(* draws on:                                                               *)
(*   - the "guarded" generation (lines 1-268): parseDotenv with            *)
(*     parseValue, expandPath as a path guard, a key prefix, buffered      *)
(*     logging, one global config file;                                    *)
(*   - the "profiler" generation (lines 416-667, with the Profiler class   *)
(*     of lines 669-947): two config candidates, expandPath as a plain     *)
(*     tilde expansion, fire-and-forget logging, resetPlugin.              *)
(* Definitions of the guarded generation carry the suffix _sb, those of    *)
(* the profiler generation the suffix _pf.                                 *)
(*                                                                         *)
(* Strings are sequences of one-character strings, so that trimming,       *)
(* splitting, prefix tests and path normalisation are computed.            *)
(***************************************************************************)
EXTENDS Integers, Sequences, FiniteSets, TLC

VARIABLES
    rawPath,        \* expandPath: the argument
    homeDir,        \* getHomeDir(): process.env.HOME
    cwdDir,         \* process.cwd()
    pathResult,     \* expandPath: the value returned, Pending before the call
    variant,        \* "sb" or "pf": the generation of the plugin that runs
    cfgFs,          \* the config candidates on disk: what jsonc-parser reads
    fs,             \* the environment files on disk: path -> content
    env,            \* process.env: name -> value
    loadGuard,      \* globalThis[LOAD_GUARD]
    loggingEnabled, \* the module-level loggingEnabled
    pc,             \* per invocation of DotEnvPlugin: where it is suspended
    cand,           \* per invocation: loadConfig's position in configPaths
    config,         \* per invocation: the config loadConfig returned
    configPath,     \* per invocation: the path loadConfig returned
    filesToLoad,    \* per invocation: the ordered file list
    next,           \* per invocation: position in the file list
    outcomes,       \* per invocation: what each loadDotenvFile call returned
    reads,          \* per invocation: the paths whose file was accessed
    epoch,          \* per invocation: the number of resets before it started
    resets,         \* number of resets so far
    writes,         \* number of file changes so far
    fileMetrics,    \* Profiler.fileMetrics
    totalVars,      \* Profiler.totalVars
    measures,       \* Profiler.measures: name -> number of measurements
    initState,      \* Profiler.initState
    profConfigPath, \* Profiler.configPath
    parseCall,      \* the decoder function called: "parseDotenv" or "parseValue"
    parseArg,       \* its argument
    parseDone,      \* whether the call has returned
    decodedMap,     \* what parseDotenv returned
    decodedValue,   \* what parseValue returned
    inFlight,       \* the log writes under way: flushLogs calls, log() promise chains
    logFile,        \* LOG_FILE: whether it exists and the messages it holds
    msgCount,       \* the number of messages logToFile / log has accepted
    logFailed       \* whether an operation on LOG_FILE has failed

pathVars == <<rawPath, pathResult>>
dirVars == <<homeDir, cwdDir>>
diskVars == <<variant, cfgFs, fs>>
procVars == <<pc, cand, config, configPath, filesToLoad, next, outcomes, reads, epoch>>
profilerVars == <<fileMetrics, totalVars, measures, initState, profConfigPath>>
logVars == <<inFlight, logFile, msgCount, logFailed>>
mainVars == <<diskVars, env, loadGuard, loggingEnabled, procVars, resets, writes,
              profilerVars, logVars>>

parseVars == <<parseCall, parseArg, parseDone, decodedMap, decodedValue>>

vars == <<pathVars, dirVars, mainVars, parseVars>>

----------------------------------------------------------------------------
(* Values that are not strings.                                            *)

\* A JavaScript value that is not a string (a number, an object, undefined).
NonString == <<"#nonstring">>
\* JavaScript null, as returned by expandPath.
Null == <<"#null">>
\* No value yet.
Pending == <<"#pending">>

IsString(v) == v # NonString /\ v # Null /\ v # Pending

----------------------------------------------------------------------------
(* String primitives of the JavaScript runtime.                            *)

\* String.prototype.startsWith
StartsWith(s, p) ==
    /\ Len(p) <= Len(s)
    /\ \A i \in 1..Len(p) : s[i] = p[i]

\* String.prototype.endsWith
EndsWith(s, p) ==
    /\ Len(p) <= Len(s)
    /\ \A i \in 1..Len(p) : s[Len(s) - Len(p) + i] = p[i]

RECURSIVE SplitAcc(_, _, _, _)
SplitAcc(s, c, i, cur) ==
    IF i > Len(s) THEN <<cur>>
    ELSE IF s[i] = c THEN <<cur>> \o SplitAcc(s, c, i + 1, <<>>)
    ELSE SplitAcc(s, c, i + 1, Append(cur, s[i]))

\* String.prototype.split on a one-character separator
Split(s, c) == SplitAcc(s, c, 1, <<>>)

RECURSIVE Join(_, _)
\* Array.prototype.join
Join(parts, sep) ==
    IF Len(parts) = 0 THEN <<>>
    ELSE IF Len(parts) = 1 THEN parts[1]
    ELSE parts[1] \o sep \o Join(Tail(parts), sep)

----------------------------------------------------------------------------
(* More string primitives.                                                 *)

NL == "\n"
CR == "\r"
TAB == "\t"
BS == "\\"
DQ == "\""
SQ == "'"

\* The characters \s matches and trim() removes, within the model's alphabet.
Whitespace == {" ", TAB, CR, NL}
\* The characters "." does not match in a regular expression.
LineTerminators == {NL, CR}

RECURSIVE TrimStart(_)
TrimStart(s) ==
    IF Len(s) > 0 /\ s[1] \in Whitespace THEN TrimStart(Tail(s)) ELSE s

RECURSIVE TrimEnd(_)
TrimEnd(s) ==
    IF Len(s) > 0 /\ s[Len(s)] \in Whitespace
      THEN TrimEnd(SubSeq(s, 1, Len(s) - 1)) ELSE s

\* String.prototype.trim
Trim(s) == TrimEnd(TrimStart(s))

\* String.prototype.indexOf, 1-based; 0 when pat does not occur.
IndexOf(s, pat) ==
    LET hits == {i \in 1..(Len(s) - Len(pat) + 1) :
                    \A j \in 1..Len(pat) : s[i + j - 1] = pat[j]}
    IN IF hits = {} THEN 0 ELSE CHOOSE i \in hits : \A k \in hits : i <= k

\* s.substring(from - 1): the text from the 1-based position from on.
From(s, from) == SubSeq(s, from, Len(s))

RECURSIVE ReplaceAll(_, _, _)
\* String.prototype.replace with a global pattern that matches the literal
\* text pat: one left-to-right pass over non-overlapping matches.
ReplaceAll(s, pat, rep) ==
    IF Len(s) < Len(pat) THEN s
    ELSE IF StartsWith(s, pat) THEN rep \o ReplaceAll(From(s, Len(pat) + 1), pat, rep)
    ELSE <<s[1]>> \o ReplaceAll(Tail(s), pat, rep)

\* A Record<string, string>: a function from keys to values.
EmptyMap == [k \in {} |-> <<>>]

\* A plausible slip: a key that is already in the map keeps its value.
Put_KeepFirst(m, k, v) ==
    [x \in (DOMAIN m) \cup {k} |-> IF x \in DOMAIN m THEN m[x] ELSE v]

\* result[key] = value
Put(m, k, v) == [x \in (DOMAIN m) \cup {k} |-> IF x = k THEN v ELSE m[x]]

----------------------------------------------------------------------------
(* node:path, POSIX flavour.                                               *)

Slash == <<"/">>
DotSeg == <<".">>
DotDotSeg == <<".", ".">>

RECURSIVE NormalizeSegments(_, _, _)
\* normalizeString of node:path: drops empty and "." segments and lets ".."
\* remove the segment before it; above the root ".." is dropped
\* (allowAboveRoot = FALSE) or kept (allowAboveRoot = TRUE).
NormalizeSegments(segs, stack, allowAboveRoot) ==
    IF Len(segs) = 0 THEN stack
    ELSE LET s == Head(segs)
             rest == Tail(segs)
         IN IF s = <<>> \/ s = DotSeg
              THEN NormalizeSegments(rest, stack, allowAboveRoot)
            ELSE IF s = DotDotSeg
              THEN IF Len(stack) > 0 /\ stack[Len(stack)] # DotDotSeg
                     THEN NormalizeSegments(rest, SubSeq(stack, 1, Len(stack) - 1),
                                            allowAboveRoot)
                   ELSE IF allowAboveRoot
                     THEN NormalizeSegments(rest, Append(stack, s), allowAboveRoot)
                   ELSE NormalizeSegments(rest, stack, allowAboveRoot)
            ELSE NormalizeSegments(rest, Append(stack, s), allowAboveRoot)

IsAbsolute(p) == Len(p) > 0 /\ p[1] = "/"

\* path.resolve(p) with the process's working directory cwd (an absolute path)
resolve(p, cwd) ==
    LET joined == IF IsAbsolute(p) THEN p
                  ELSE IF Len(p) = 0 THEN cwd
                  ELSE cwd \o Slash \o p
    IN Slash \o Join(NormalizeSegments(Split(joined, "/"), <<>>, FALSE), Slash)

\* path.normalize(p)
normalize(p) ==
    IF Len(p) = 0 THEN DotSeg
    ELSE LET abs == IsAbsolute(p)
             trailing == p[Len(p)] = "/"
             body == Join(NormalizeSegments(Split(p, "/"), <<>>, ~abs), Slash)
             body2 == IF Len(body) = 0 /\ ~abs THEN DotSeg ELSE body
             body3 == IF Len(body2) > 0 /\ trailing THEN body2 \o Slash ELSE body2
         IN IF abs THEN Slash \o body3 ELSE body3

----------------------------------------------------------------------------
(* expandPath, guarded generation: the path guard.                         *)

\* rawPath.replace(/^~/, home)
ReplaceLeadingTilde(p, home) ==
    IF Len(p) > 0 /\ p[1] = "~" THEN home \o Tail(p) ELSE p

\* A plausible slip: the prefix test made on the expanded path, before
\* resolve and normalize have removed the ".." segments.
expandPath_PrefixBeforeNormalize(raw, home, cwd) ==
    IF ~IsString(raw) THEN Null
    ELSE LET expanded == ReplaceLeadingTilde(raw, home)
             absolute == IF IsAbsolute(expanded) THEN expanded
                         ELSE cwd \o Slash \o expanded
             normalized == normalize(resolve(expanded, cwd))
         IN IF StartsWith(absolute, home) \/ StartsWith(absolute, cwd)
              THEN normalized ELSE Null

expandPath_sb(raw, home, cwd) ==
    IF ~IsString(raw) THEN Null
    ELSE LET expanded == ReplaceLeadingTilde(raw, home)
             resolved == resolve(expanded, cwd)
             normalized == normalize(resolved)
             isWithinAllowedDirectory ==
                 StartsWith(normalized, home) \/ StartsWith(normalized, cwd)
         IN IF isWithinAllowedDirectory THEN normalized ELSE Null

----------------------------------------------------------------------------
(* parseDotenv, guarded generation.                                        *)

Letters == {"A", "B", "C", "D", "E", "F", "G", "H", "I", "J", "K", "L", "M",
            "N", "O", "P", "Q", "R", "S", "T", "U", "V", "W", "X", "Y", "Z",
            "a", "b", "c", "d", "e", "f", "g", "h", "i", "j", "k", "l", "m",
            "n", "o", "p", "q", "r", "s", "t", "u", "v", "w", "x", "y", "z",
            "_"}
Digits == {"0", "1", "2", "3", "4", "5", "6", "7", "8", "9"}

\* A plausible slip: every key that is not empty is taken.
isValidEnvKey_AnyKey(key) == Len(key) > 0

\* VALID_ENV_KEY = /^[a-zA-Z_][a-zA-Z0-9_]*$/
isValidEnvKey(key) ==
    /\ Len(key) > 0
    /\ key[1] \in Letters
    /\ \A i \in 2..Len(key) : key[i] \in Letters \cup Digits

RECURSIVE findClosingQuoteFrom(_, _, _)
findClosingQuoteFrom(str, quote, i) ==
    IF i > Len(str) THEN 0
    ELSE IF str[i] = BS /\ i + 1 <= Len(str)
      THEN findClosingQuoteFrom(str, quote, i + 2)
    ELSE IF str[i] = quote THEN i
    ELSE findClosingQuoteFrom(str, quote, i + 1)

\* findClosingQuote: the 1-based position of the closing quote, 0 for -1.
findClosingQuote(str, quote) == findClosingQuoteFrom(str, quote, 2)

\* The chain of five global replacements of parseValue.
Unescape(s) ==
    ReplaceAll(
      ReplaceAll(
        ReplaceAll(
          ReplaceAll(
            ReplaceAll(s, <<BS, "n">>, <<NL>>),
            <<BS, "r">>, <<CR>>),
          <<BS, "t">>, <<TAB>>),
        <<BS, DQ>>, <<DQ>>),
      <<BS, BS>>, <<BS>>)

\* A plausible slip: an unterminated quote loses its opening quote.
parseValue_DropOpeningQuote(raw) ==
    IF ~IsString(raw) THEN <<>>
    ELSE LET value == Trim(raw)
         IN IF StartsWith(value, <<DQ>>) \/ StartsWith(value, <<SQ>>)
              THEN LET endQuote == findClosingQuote(value, value[1])
                   IN IF endQuote # 0
                        THEN LET unquoted == SubSeq(value, 2, endQuote - 1)
                             IN IF value[1] = DQ THEN Unescape(unquoted)
                                ELSE unquoted
                        ELSE Tail(value)
            ELSE LET inlineCommentIndex == IndexOf(value, <<" ", "#">>)
                 IN IF inlineCommentIndex # 0
                      THEN Trim(SubSeq(value, 1, inlineCommentIndex - 1))
                      ELSE Trim(value)

\* A plausible slip: a "#" cuts an unquoted value with or without a space
\* before it.
parseValue_CutAtAnyHash(raw) ==
    IF ~IsString(raw) THEN <<>>
    ELSE LET value == Trim(raw)
         IN IF StartsWith(value, <<DQ>>) \/ StartsWith(value, <<SQ>>)
              THEN LET endQuote == findClosingQuote(value, value[1])
                   IN IF endQuote # 0
                        THEN LET unquoted == SubSeq(value, 2, endQuote - 1)
                             IN IF value[1] = DQ THEN Unescape(unquoted)
                                ELSE unquoted
                        ELSE value
            ELSE LET inlineCommentIndex == IndexOf(value, <<"#">>)
                 IN IF inlineCommentIndex # 0
                      THEN Trim(SubSeq(value, 1, inlineCommentIndex - 1))
                      ELSE Trim(value)

\* A plausible slip: single-quoted values unescaped like double-quoted ones.
parseValue_SingleUnescaped(raw) ==
    IF ~IsString(raw) THEN <<>>
    ELSE LET value == Trim(raw)
         IN IF StartsWith(value, <<DQ>>) \/ StartsWith(value, <<SQ>>)
              THEN LET endQuote == findClosingQuote(value, value[1])
                   IN IF endQuote # 0
                        THEN Unescape(SubSeq(value, 2, endQuote - 1))
                        ELSE value
            ELSE LET inlineCommentIndex == IndexOf(value, <<" ", "#">>)
                 IN IF inlineCommentIndex # 0
                      THEN Trim(SubSeq(value, 1, inlineCommentIndex - 1))
                      ELSE Trim(value)

parseValue(raw) ==
    IF ~IsString(raw) THEN <<>>
    ELSE LET value == Trim(raw)
         IN IF StartsWith(value, <<DQ>>)
              THEN LET endQuote == findClosingQuote(value, DQ)
                   IN IF endQuote # 0
                        THEN Unescape(SubSeq(value, 2, endQuote - 1))
                        ELSE value
            ELSE IF StartsWith(value, <<SQ>>)
              THEN LET endQuote == findClosingQuote(value, SQ)
                   IN IF endQuote # 0
                        THEN SubSeq(value, 2, endQuote - 1)
                        ELSE value
            ELSE LET inlineCommentIndex == IndexOf(value, <<" ", "#">>)
                 IN IF inlineCommentIndex # 0
                      THEN Trim(SubSeq(value, 1, inlineCommentIndex - 1))
                      ELSE Trim(value)

ExportWord == <<"e", "x", "p", "o", "r", "t">>

\* line.match(/^export\s+(.*)$/): the captured rest, or the line itself when
\* the pattern does not match.
StripExport(line) ==
    IF StartsWith(line, ExportWord)
       /\ Len(line) > Len(ExportWord)
       /\ line[Len(ExportWord) + 1] \in Whitespace
      THEN LET rest == TrimStart(From(line, Len(ExportWord) + 1))
           IN IF \A i \in 1..Len(rest) : rest[i] \notin LineTerminators
                THEN rest ELSE line
      ELSE line

\* A plausible slip: a continuation joins one following line only.
JoinContinuation_Once(lines, line, i) ==
    IF EndsWith(line, <<BS>>) /\ i <= Len(lines)
      THEN [line |-> SubSeq(line, 1, Len(line) - 1) \o lines[i], i |-> i + 1]
      ELSE [line |-> line, i |-> i]

RECURSIVE JoinContinuation(_, _, _)
\* while (line.endsWith("\\") && i < lines.length): the joined line and the
\* 1-based index of the next line to read.
JoinContinuation(lines, line, i) ==
    IF EndsWith(line, <<BS>>) /\ i <= Len(lines)
      THEN JoinContinuation(lines, SubSeq(line, 1, Len(line) - 1) \o lines[i], i + 1)
      ELSE [line |-> line, i |-> i]

RECURSIVE parseLines_sb(_, _, _)
parseLines_sb(lines, i, result) ==
    IF i > Len(lines) THEN result
    ELSE LET first == Trim(lines[i])
         IN IF first = <<>> \/ first[1] = "#"
              THEN parseLines_sb(lines, i + 1, result)
            ELSE LET joined == JoinContinuation(lines, first, i + 1)
                     line == StripExport(joined.line)
                     eqIndex == IndexOf(line, <<"=">>)
                 IN IF eqIndex = 0 THEN parseLines_sb(lines, joined.i, result)
                    ELSE LET key == Trim(SubSeq(line, 1, eqIndex - 1))
                             value == parseValue(From(line, eqIndex + 1))
                         IN parseLines_sb(lines, joined.i,
                              IF key # <<>> /\ isValidEnvKey(key)
                                THEN Put(result, key, value) ELSE result)

parseDotenv_sb(content) ==
    IF ~IsString(content) THEN EmptyMap
    ELSE parseLines_sb(Split(content, NL), 1, EmptyMap)

----------------------------------------------------------------------------
(* parseDotenv, profiler generation.                                       *)

\* trimmed.match(/^export\s+([^=]+)=(.*)$/)
ExportMatches(trimmed) ==
    /\ StartsWith(trimmed, ExportWord)
    /\ Len(trimmed) > Len(ExportWord)
    /\ trimmed[Len(ExportWord) + 1] \in Whitespace
    /\ LET rest == From(trimmed, Len(ExportWord) + 1)
           eq == IndexOf(rest, <<"=">>)
       IN /\ eq >= 3
          /\ \A i \in (eq + 1)..Len(rest) : rest[i] \notin LineTerminators

\* match[1]: \s+ is greedy but leaves at least one character to [^=]+
ExportKey(trimmed) ==
    LET rest == From(trimmed, Len(ExportWord) + 1)
        eq == IndexOf(rest, <<"=">>)
        name == SubSeq(rest, 1, eq - 1)
        stripped == TrimStart(name)
    IN IF stripped = <<>> THEN <<name[Len(name)]>> ELSE stripped

\* match[2]
ExportValue(trimmed) ==
    LET rest == From(trimmed, Len(ExportWord) + 1)
    IN From(rest, IndexOf(rest, <<"=">>) + 1)

\* The quote stripping and inline-comment stripping of lines 486-500.
parsedValue_pf(value) ==
    LET trimmedValue == Trim(value)
        quoted == StartsWith(trimmedValue, <<DQ>>) \/ StartsWith(trimmedValue, <<SQ>>)
        inlineCommentIndex == IndexOf(trimmedValue, <<" ", "#">>)
        uncommented == IF ~quoted /\ inlineCommentIndex # 0
                         THEN Trim(SubSeq(trimmedValue, 1, inlineCommentIndex - 1))
                         ELSE trimmedValue
    IN IF \/ StartsWith(uncommented, <<DQ>>) /\ EndsWith(uncommented, <<DQ>>)
          \/ StartsWith(uncommented, <<SQ>>) /\ EndsWith(uncommented, <<SQ>>)
         THEN SubSeq(uncommented, 2, Len(uncommented) - 1)
         ELSE uncommented

RECURSIVE parseLines_pf(_, _, _)
parseLines_pf(lines, i, result) ==
    IF i > Len(lines) THEN result
    ELSE LET trimmed == Trim(lines[i])
         IN IF trimmed = <<>> \/ trimmed[1] = "#"
              THEN parseLines_pf(lines, i + 1, result)
            ELSE LET match == ExportMatches(trimmed)
                     key == IF match THEN ExportKey(trimmed)
                            ELSE Split(trimmed, "=")[1]
                 IN IF key = <<>> THEN parseLines_pf(lines, i + 1, result)
                    ELSE LET value == IF match THEN ExportValue(trimmed)
                                      ELSE From(trimmed, Len(key) + 2)
                         IN parseLines_pf(lines, i + 1,
                              Put(result, Trim(key), parsedValue_pf(value)))

parseDotenv_pf(content) ==
    IF ~IsString(content) THEN EmptyMap
    ELSE parseLines_pf(Split(content, NL), 1, EmptyMap)

----------------------------------------------------------------------------
(* The disk and the configuration documents.                               *)

\* Most invocations of DotEnvPlugin in one behaviour.
MaxInvocations == 2
\* Most resets (resetPlugin, or the tests' delete of the guard).
MaxResets == 1
\* Most changes of an environment file while the plugin is in use.
MaxWrites == 1

Invocations == 1..MaxInvocations

\* File contents that are not text.
Missing == <<"#missing">>
Directory == <<"#directory">>

Home == <<"/", "h">>
Cwd == <<"/", "w">>

\* `${process.cwd()}/.env`
CwdEnvPath(cwd) == cwd \o <<"/", ".", "e", "n", "v">>

HomeEnvFile == <<"/", "h", "/", "a">>
CwdSideFile == <<"/", "w", "/", "b">>
OutsideFile == <<"/", "e", "/", "p">>
HomePrefixFile == <<"/", "h", "/", "c">>
HomeKeysFile == <<"/", "h", "/", "d">>

EnvFiles ==
    {HomeEnvFile, CwdSideFile, CwdEnvPath(Cwd), OutsideFile, HomePrefixFile,
     HomeKeysFile}

\* A=1
TextHome == <<"A", "=", "1">>
\* A=2 / B=2
TextSide == <<"A", "=", "2", NL, "B", "=", "2">>
\* # c / export A=3 / K="3"
TextCwd == <<"#", "c", NL, "e", "x", "p", "o", "r", "t", " ", "A", "=", "3", NL,
             "K", "=", DQ, "3", DQ>>
\* P=9
TextOutside == <<"P", "=", "9">>
\* A=7
TextChanged == <<"A", "=", "7">>
\* A=5 / P_A=6: one key is another key behind the prefix P_
TextPrefix == <<"A", "=", "5", NL, "P", "_", "A", "=", "6">>
\* A-B=5 / A=4: a key outside the key pattern, then a key inside it
TextKeys == <<"A", "-", "B", "=", "5", NL, "A", "=", "4">>

InitialFs ==
    [f \in EnvFiles |->
        IF f = HomeEnvFile THEN TextHome
        ELSE IF f = CwdSideFile THEN TextSide
        ELSE IF f = OutsideFile THEN TextOutside
        ELSE IF f = HomePrefixFile THEN TextPrefix
        ELSE IF f = HomeKeysFile THEN TextKeys
        ELSE TextCwd]

\* What a file change may leave behind.
WriteContents == {Missing, Directory, <<>>, TextChanged}
WritablePaths == {CwdEnvPath(Cwd)}

\* The variables the caller already had: A is set (and defined by the
\* files), X is set (and defined by no file).
InitialEnv == Put(Put(EmptyMap, <<"A">>, <<"0">>), <<"X">>, <<"0">>)

\* Bun.file(path): the operating system resolves the path from the working
\* directory; a path that names no modelled file does not exist.
FileAt(path) ==
    LET real == resolve(path, cwdDir)
    IN IF real \in DOMAIN fs THEN fs[real] ELSE Missing

\* A configuration document as jsonc-parser's parse sees it:
\*   kind       "missing" (no file or unreadable), "empty" (empty content),
\*              "scalar" (parses to no object), "object"
\*   filesKind  "absent", "string" (present, no array), "array"
\*   load_cwd_env, logging  "true", "false" or "absent"
\*   prefix     a string, empty when absent
Doc(kind, filesKind, files, lce, prefix, logging) ==
    [kind |-> kind, filesKind |-> filesKind, files |-> files,
     load_cwd_env |-> lce, prefix |-> prefix, logging |-> logging]

DocMissing == Doc("missing", "absent", <<>>, "absent", <<>>, "absent")
DocEmpty == Doc("empty", "absent", <<>>, "absent", <<>>, "absent")
DocScalar == Doc("scalar", "absent", <<>>, "absent", <<>>, "absent")
\* { "load_cwd_env": false, "logging": { "enabled": true } }
DocNoFiles == Doc("object", "absent", <<>>, "false", <<>>, "true")
\* { "files": "~/a", "load_cwd_env": false, "logging": { "enabled": true } }
DocFilesNotArray == Doc("object", "string", <<>>, "false", <<>>, "true")
\* { "files": ["~/a", "b"] }
DocTwoFiles ==
    Doc("object", "array", << <<"~", "/", "a">>, <<"b">> >>, "absent", <<>>, "absent")
\* { "files": ["/e/p", "~/a"], "load_cwd_env": false, "prefix": "P_",
\*   "logging": { "enabled": true } }
DocOutsideFirst ==
    Doc("object", "array", << <<"/", "e", "/", "p">>, <<"~", "/", "a">> >>,
        "false", <<"P", "_">>, "true")
\* { "files": [".env", "~/../e/p", "~/a"], "load_cwd_env": false,
\*   "logging": { "enabled": false } }
DocCwdEnvListed ==
    Doc("object", "array",
        << <<".", "e", "n", "v">>, <<"~", "/", ".", ".", "/", "e", "/", "p">>,
           <<"~", "/", "a">> >>,
        "false", <<>>, "false")
\* { "files": [123, "~/a"], "load_cwd_env": true }
DocNonStringEntry ==
    Doc("object", "array", << NonString, <<"~", "/", "a">> >>, "true", <<>>, "absent")

\* { "files": ["~/c"], "load_cwd_env": false, "prefix": "P_" }
DocPrefix ==
    Doc("object", "array", << <<"~", "/", "c">> >>, "false", <<"P", "_">>, "absent")

\* { "files": ["~/d"], "load_cwd_env": false, "prefix": "1" }
DocDigitPrefix ==
    Doc("object", "array", << <<"~", "/", "d">> >>, "false", <<"1">>, "absent")

ConfigDocs ==
    {DocMissing, DocEmpty, DocScalar, DocNoFiles, DocFilesNotArray,
     DocTwoFiles, DocOutsideFirst, DocCwdEnvListed, DocNonStringEntry, DocPrefix,
     DocDigitPrefix}

\* The documents tried at the second location of the profiler generation.
GlobalDocs == {DocMissing, DocNoFiles, DocTwoFiles, DocOutsideFirst}

\* The DotEnvConfig object a document parses to.
ConfigRecord(files, lce, prefix, logging) ==
    [files |-> files, load_cwd_env |-> lce, prefix |-> prefix, logging |-> logging]

configOf(doc) == ConfigRecord(doc.files, doc.load_cwd_env, doc.prefix, doc.logging)

\* { files: [], load_cwd_env: true }
DefaultConfig == ConfigRecord(<<>>, "true", <<>>, "absent")

\* Before loadConfig has returned.
NoConfig == ConfigRecord(<<>>, "absent", <<>>, "absent")

\* A plausible slip: the global candidate looked up first.
configPaths_GlobalFirst == <<"global", "local">>

\* configPaths of the profiler generation: the working directory's
\* dotenv.jsonc, then ~/.config/opencode/dotenv.jsonc.
configPaths_pf == <<"local", "global">>

\* configPath of the guarded generation: ~/.config/opencode/opencode-dotenv.jsonc
configPath_sb == "global"

----------------------------------------------------------------------------
(* Writing the decoded variables into process.env.                         *)

\* A plausible slip: the usual dotenv rule, a variable already set is kept.
ApplyVars_KeepExisting(e, m, prefix) ==
    [k \in (DOMAIN e) \cup {prefix \o key : key \in DOMAIN m} |->
        IF k \in DOMAIN e THEN e[k]
        ELSE m[CHOOSE key \in DOMAIN m : prefix \o key = k]]

\* A plausible slip: the prefix is dropped, every variable goes under its
\* own name.
ApplyVars_NoPrefix(e, m, prefix) ==
    [k \in (DOMAIN e) \cup (DOMAIN m) |-> IF k \in DOMAIN m THEN m[k] ELSE e[k]]

\* for (const [key, value] of Object.entries(envVars)) process.env[envKey] = value
ApplyVars(e, m, prefix) ==
    [k \in (DOMAIN e) \cup {prefix \o key : key \in DOMAIN m} |->
        IF \E key \in DOMAIN m : prefix \o key = k
          THEN m[CHOOSE key \in DOMAIN m : prefix \o key = k]
          ELSE e[k]]

\* What one loadDotenvFile call did: the path, the result it returned and
\* the map it wrote.
Outcome(path, success, count, written) ==
    [path |-> path, success |-> success, count |-> count, vars |-> written]

FailedOutcome(path) == Outcome(path, FALSE, 0, EmptyMap)

\* Invocations are taken in order: the host's p-th call of the plugin is
\* invocation p.
IsNextInvocation(p) ==
    /\ pc[p] = "idle"
    /\ \A q \in Invocations : q < p => pc[q] # "idle"

----------------------------------------------------------------------------
(* The Profiler class (globalProfiler).                                    *)

Metric(path, varCount, success) ==
    [path |-> path, varCount |-> varCount, success |-> success]

NoMeasures == [n \in {"config.load", "file.load"} |-> 0]

\* Profiler.record(name, duration): one more measurement under name
record(m, name) == [m EXCEPT ![name] = @ + 1]

\* A plausible slip: the variables of a failed load are counted too.
recordFileLoad_FailuresCounted(path, varCount, success) ==
    /\ fileMetrics' = Append(fileMetrics, Metric(path, varCount, success))
    /\ totalVars' = totalVars + varCount

\* Profiler.recordFileLoad
recordFileLoad(path, varCount, success) ==
    /\ fileMetrics' = Append(fileMetrics, Metric(path, varCount, success))
    /\ totalVars' = IF success THEN totalVars + varCount ELSE totalVars

\* Profiler.reset
ProfilerReset ==
    /\ fileMetrics' = <<>>
    /\ totalVars' = 0
    /\ measures' = NoMeasures
    /\ initState' = "idle"
    /\ profConfigPath' = "null"

----------------------------------------------------------------------------
(* The profiler generation of the plugin.                                  *)

\* expandPath of the profiler generation: path.replace(/^~/, homedir())
expandPath_pf(path, home) == ReplaceLeadingTilde(path, home)

\* A plausible slip: the working directory's .env put first in the list.
filesToLoadOf_CwdFirst(cfg, home, cwd) ==
    (IF cfg.load_cwd_env # "false" THEN <<CwdEnvPath(cwd)>> ELSE <<>>)
    \o [i \in 1..Len(cfg.files) |-> expandPath_pf(cfg.files[i], home)]

\* A plausible slip: the configured files taken last to first.
filesToLoadOf_Reversed(cfg, home, cwd) ==
    [i \in 1..Len(cfg.files) |->
        expandPath_pf(cfg.files[Len(cfg.files) + 1 - i], home)]
    \o (IF cfg.load_cwd_env # "false" THEN <<CwdEnvPath(cwd)>> ELSE <<>>)

\* A plausible slip: load_cwd_env ignored.
filesToLoadOf_AlwaysCwd(cfg, home, cwd) ==
    [i \in 1..Len(cfg.files) |-> expandPath_pf(cfg.files[i], home)]
    \o <<CwdEnvPath(cwd)>>

\* filesToLoad: config.files expanded, then the working directory's .env
\* unless load_cwd_env is false
filesToLoadOf_pf(cfg, home, cwd) ==
    [i \in 1..Len(cfg.files) |-> expandPath_pf(cfg.files[i], home)]
    \o (IF cfg.load_cwd_env # "false" THEN <<CwdEnvPath(cwd)>> ELSE <<>>)

\* A plausible slip: the Array.isArray test left out.
CandidateValid_AnyFiles(doc) ==
    /\ doc.kind = "object"
    /\ doc.filesKind # "absent"

\* loadConfig's test of one candidate: the file is read, its content is not
\* empty, and it parses to an object whose files is an array
CandidateValid_pf(doc) ==
    /\ doc.kind \notin {"missing", "empty"}
    /\ doc.kind = "object"
    /\ doc.filesKind = "array"

\* A plausible slip: fields the chosen document leaves out are taken from
\* the global document.
resolvedConfig_Merged(doc) ==
    LET g == cfgFs["global"]
    IN ConfigRecord(doc.files,
                    IF doc.load_cwd_env = "absent" THEN g.load_cwd_env
                    ELSE doc.load_cwd_env,
                    doc.prefix,
                    IF doc.logging = "absent" THEN g.logging ELSE doc.logging)

\* The config returned for a valid candidate: the parsed object itself
resolvedConfig_pf(doc) == configOf(doc)

\* A plausible slip: a file that cannot be read counts as an empty file that
\* was loaded.
loadResult_UnreadableLoaded(path, content) ==
    IF content = Missing \/ content = Directory \/ content = <<>>
      THEN Outcome(path, TRUE, 0, EmptyMap)
      ELSE LET envVars == parseDotenv_pf(content)
           IN Outcome(path, TRUE, Cardinality(DOMAIN envVars), envVars)

\* The result of loadDotenvFile's try block on the content read
loadResult_pf(path, content) ==
    IF content = Missing \/ content = Directory \/ content = <<>>
      THEN FailedOutcome(path)
      ELSE LET envVars == parseDotenv_pf(content)
           IN Outcome(path, TRUE, Cardinality(DOMAIN envVars), envVars)

\* A plausible slip: the guard is tested but never set.
Invoke_GuardNotSet(p) ==
    /\ variant = "pf"
    /\ IsNextInvocation(p)
    /\ IF loadGuard
         THEN /\ pc' = [pc EXCEPT ![p] = "skipped"]
              /\ UNCHANGED <<cand, initState>>
         ELSE /\ pc' = [pc EXCEPT ![p] = "config"]
              /\ cand' = [cand EXCEPT ![p] = 1]
              /\ initState' = "loading"
    /\ epoch' = [epoch EXCEPT ![p] = resets]
    /\ UNCHANGED <<logVars, parseVars, pathVars,
                   dirVars, diskVars, env, loadGuard, loggingEnabled, config,
                   configPath, filesToLoad, next, outcomes, reads, resets, writes,
                   fileMetrics, totalVars, measures, profConfigPath>>

\* DotEnvPlugin up to its first await: the load guard, initStart, and the
\* start of loadConfig
InvokeCore_pf(p) ==
    /\ variant = "pf"
    /\ IsNextInvocation(p)
    /\ IF loadGuard
         THEN /\ pc' = [pc EXCEPT ![p] = "skipped"]
              /\ UNCHANGED <<loadGuard, cand, initState>>
         ELSE /\ loadGuard' = TRUE
              /\ pc' = [pc EXCEPT ![p] = "config"]
              /\ cand' = [cand EXCEPT ![p] = 1]
              /\ initState' = "loading"
    /\ epoch' = [epoch EXCEPT ![p] = resets]
    /\ UNCHANGED <<parseVars, pathVars, dirVars, diskVars, env, loggingEnabled, config,
                   configPath, filesToLoad, next, outcomes, reads, resets, writes,
                   fileMetrics, totalVars, measures, profConfigPath>>

\* The step as the load run sees it, the log left as it is
Invoke_pf(p) == InvokeCore_pf(p) /\ UNCHANGED logVars

\* DotEnvPlugin from the return of loadConfig to the first file read: the
\* file list is built (expandPath throws on an entry that is no string) and
\* an empty list completes the run
StartLoad_pf(p, cfg, path) ==
    /\ config' = [config EXCEPT ![p] = cfg]
    /\ configPath' = [configPath EXCEPT ![p] = path]
    /\ IF \E i \in 1..Len(cfg.files) : ~IsString(cfg.files[i])
         THEN /\ pc' = [pc EXCEPT ![p] = "threw"]
              /\ UNCHANGED <<filesToLoad, next, initState>>
         ELSE LET list == filesToLoadOf_pf(cfg, homeDir, cwdDir)
              IN /\ filesToLoad' = [filesToLoad EXCEPT ![p] = list]
                 /\ next' = [next EXCEPT ![p] = 1]
                 /\ IF list = <<>>
                      THEN /\ pc' = [pc EXCEPT ![p] = "returned"]
                           /\ initState' = "ready"
                      ELSE /\ pc' = [pc EXCEPT ![p] = "load"]
                           /\ UNCHANGED initState

\* loadConfig: one candidate read (await file.text()) and what follows it
\* without a further await
ReadCandidateCore_pf(p) ==
    /\ variant = "pf"
    /\ pc[p] = "config"
    /\ LET name == configPaths_pf[cand[p]]
           doc == cfgFs[name]
       IN IF CandidateValid_pf(doc)
            THEN /\ loggingEnabled' = (doc.logging = "true")
                 /\ measures' = record(measures, "config.load")
                 /\ profConfigPath' = name
                 /\ StartLoad_pf(p, resolvedConfig_pf(doc), name)
                 /\ UNCHANGED cand
          ELSE IF cand[p] < Len(configPaths_pf)
            THEN /\ cand' = [cand EXCEPT ![p] = @ + 1]
                 /\ UNCHANGED <<loggingEnabled, measures, profConfigPath, config,
                                configPath, filesToLoad, next, pc, initState>>
          ELSE /\ measures' = record(measures, "config.load")
               /\ StartLoad_pf(p, DefaultConfig, "null")
               /\ UNCHANGED <<loggingEnabled, profConfigPath, cand>>
    /\ UNCHANGED <<parseVars, pathVars, dirVars, diskVars, env, loadGuard, outcomes, reads,
                   epoch, resets, writes, fileMetrics, totalVars>>

\* The step as the load run sees it, the log left as it is
ReadCandidate_pf(p) == ReadCandidateCore_pf(p) /\ UNCHANGED logVars

RECURSIVE ApplyAll(_, _)
\* The variables of a sequence of outcomes written in order.
ApplyAll(e, os) ==
    IF os = <<>> THEN e
    ELSE ApplyAll(IF os[1].success THEN ApplyVars(e, os[1].vars, <<>>) ELSE e, Tail(os))

\* A plausible slip: the files are read one after the other but their
\* variables are written together, once the last file is read.
LoadFile_DeferredApply(p) ==
    /\ variant = "pf"
    /\ pc[p] = "load"
    /\ LET path == filesToLoad[p][next[p]]
           r == loadResult_pf(path, FileAt(path))
           last == next[p] = Len(filesToLoad[p])
       IN /\ env' = IF last THEN ApplyAll(env, Append(outcomes[p], r)) ELSE env
          /\ recordFileLoad(path, r.count, r.success)
          /\ measures' = IF r.success THEN record(measures, "file.load") ELSE measures
          /\ outcomes' = [outcomes EXCEPT ![p] = Append(@, r)]
          /\ reads' = [reads EXCEPT ![p] = Append(@, resolve(path, cwdDir))]
          /\ next' = [next EXCEPT ![p] = @ + 1]
          /\ pc' = [pc EXCEPT ![p] = IF last THEN "returned" ELSE "load"]
          /\ initState' = IF last THEN "ready" ELSE initState
    /\ UNCHANGED <<logVars, parseVars, pathVars,
                   dirVars, diskVars, loadGuard, loggingEnabled, cand, config,
                   configPath, filesToLoad, epoch, resets, writes, profConfigPath>>

\* A plausible slip: a file that fails to load leaves no outcome behind.
LoadFile_FailureUnrecorded(p) ==
    /\ variant = "pf"
    /\ pc[p] = "load"
    /\ LET path == filesToLoad[p][next[p]]
           r == loadResult_pf(path, FileAt(path))
           last == next[p] = Len(filesToLoad[p])
       IN /\ env' = IF r.success THEN ApplyVars(env, r.vars, <<>>) ELSE env
          /\ IF r.success
               THEN /\ recordFileLoad(path, r.count, r.success)
                    /\ measures' = record(measures, "file.load")
                    /\ outcomes' = [outcomes EXCEPT ![p] = Append(@, r)]
               ELSE UNCHANGED <<fileMetrics, totalVars, measures, outcomes>>
          /\ reads' = [reads EXCEPT ![p] = Append(@, resolve(path, cwdDir))]
          /\ next' = [next EXCEPT ![p] = @ + 1]
          /\ pc' = [pc EXCEPT ![p] = IF last THEN "returned" ELSE "load"]
          /\ initState' = IF last THEN "ready" ELSE initState
    /\ UNCHANGED <<logVars, parseVars, pathVars,
                   dirVars, diskVars, loadGuard, loggingEnabled, cand, config,
                   configPath, filesToLoad, epoch, resets, writes, profConfigPath>>

\* One turn of the loading loop: loadDotenvFile on the next path (await
\* file.text()), and the end of the plugin after the last one
LoadFileCore_pf(p) ==
    /\ variant = "pf"
    /\ pc[p] = "load"
    /\ LET path == filesToLoad[p][next[p]]
           r == loadResult_pf(path, FileAt(path))
           last == next[p] = Len(filesToLoad[p])
       IN /\ env' = IF r.success THEN ApplyVars(env, r.vars, <<>>) ELSE env
          /\ recordFileLoad(path, r.count, r.success)
          /\ measures' = IF r.success THEN record(measures, "file.load") ELSE measures
          /\ outcomes' = [outcomes EXCEPT ![p] = Append(@, r)]
          /\ reads' = [reads EXCEPT ![p] = Append(@, resolve(path, cwdDir))]
          /\ next' = [next EXCEPT ![p] = @ + 1]
          /\ pc' = [pc EXCEPT ![p] = IF last THEN "returned" ELSE "load"]
          /\ initState' = IF last THEN "ready" ELSE initState
    /\ UNCHANGED <<parseVars, pathVars, dirVars, diskVars, loadGuard, loggingEnabled, cand, config,
                   configPath, filesToLoad, epoch, resets, writes, profConfigPath>>

\* The step as the load run sees it, the log left as it is
LoadFile_pf(p) == LoadFileCore_pf(p) /\ UNCHANGED logVars

\* resetPlugin: globalProfiler.reset() and the guard deleted
Reset_pf ==
    /\ variant = "pf"
    /\ resets < MaxResets
    /\ resets' = resets + 1
    /\ loadGuard' = FALSE
    /\ ProfilerReset
    /\ UNCHANGED <<logVars, parseVars, pathVars,
                   dirVars, diskVars, env, loggingEnabled, procVars, writes>>

----------------------------------------------------------------------------
(* The guarded generation of the plugin.                                   *)

\* loadConfig's test of the one config file: it exists, can be read, and
\* parses to an object whose files is an array
ConfigValid_sb(doc) ==
    /\ doc.kind # "missing"
    /\ doc.kind = "object"
    /\ doc.filesKind = "array"

\* The positions of the loading code: 1..Len(config.files) are the turns of
\* the for loop, Len(config.files) + 1 is the working directory's .env,
\* Len(config.files) + 2 is past both.
CwdTurn(cfg) == Len(cfg.files) + 1
PastFiles(cfg) == Len(cfg.files) + 2

\* The path loaded at a position
PathAt_sb(cfg, i, home, cwd) ==
    IF i <= Len(cfg.files) THEN expandPath_sb(cfg.files[i], home, cwd)
    ELSE CwdEnvPath(cwd)

RECURSIVE NextStop_StopAtRejected(_, _, _, _)
\* A plausible slip: a rejected path ends the loop (break for continue).
NextStop_StopAtRejected(cfg, i, home, cwd) ==
    IF i <= Len(cfg.files)
      THEN IF expandPath_sb(cfg.files[i], home, cwd) # Null THEN i
           ELSE NextStop_StopAtRejected(cfg, CwdTurn(cfg), home, cwd)
    ELSE IF i = CwdTurn(cfg) /\ cfg.load_cwd_env # "false" THEN i
    ELSE PastFiles(cfg)

RECURSIVE NextStop_sb(_, _, _, _)
\* The first position from i on at which a file is loaded: the loop skips
\* (continue) every entry expandPath rejects, and the working directory's
\* .env is loaded unless load_cwd_env is false
NextStop_sb(cfg, i, home, cwd) ==
    IF i <= Len(cfg.files)
      THEN IF expandPath_sb(cfg.files[i], home, cwd) # Null THEN i
           ELSE NextStop_sb(cfg, i + 1, home, cwd)
    ELSE IF i = CwdTurn(cfg) /\ cfg.load_cwd_env # "false" THEN i
    ELSE PastFiles(cfg)

\* The plugin moves on to position i or, past the files, to the final
\* await flushLogs()
Advance_sb(p, cfg, i) ==
    LET j == NextStop_sb(cfg, i, homeDir, cwdDir)
    IN /\ next' = [next EXCEPT ![p] = j]
       /\ pc' = [pc EXCEPT ![p] = IF j = PastFiles(cfg) THEN "flush" ELSE "exists"]

\* DotEnvPlugin up to its first await: the load guard
InvokeCore_sb(p) ==
    /\ variant = "sb"
    /\ IsNextInvocation(p)
    /\ IF loadGuard
         THEN /\ pc' = [pc EXCEPT ![p] = "skipped"]
              /\ UNCHANGED loadGuard
         ELSE /\ loadGuard' = TRUE
              /\ pc' = [pc EXCEPT ![p] = "config"]
    /\ epoch' = [epoch EXCEPT ![p] = resets]
    /\ UNCHANGED <<parseVars, pathVars, dirVars, diskVars, env, loggingEnabled, cand, config,
                   configPath, filesToLoad, next, outcomes, reads, resets, writes,
                   profilerVars>>

\* The step as the load run sees it, the log left as it is
Invoke_sb(p) == InvokeCore_sb(p) /\ UNCHANGED logVars

\* loadConfig of the guarded generation, and the plugin up to the first
\* file it loads
LoadConfigCore_sb(p) ==
    /\ variant = "sb"
    /\ pc[p] = "config"
    /\ LET doc == cfgFs[configPath_sb]
           valid == ConfigValid_sb(doc)
           cfg == IF valid THEN configOf(doc) ELSE DefaultConfig
       IN /\ loggingEnabled' = IF valid THEN doc.logging # "false" ELSE loggingEnabled
          /\ config' = [config EXCEPT ![p] = cfg]
          /\ configPath' = [configPath EXCEPT ![p] =
                               IF valid THEN configPath_sb ELSE "null"]
          /\ filesToLoad' = [filesToLoad EXCEPT ![p] = cfg.files]
          /\ Advance_sb(p, cfg, 1)
    /\ UNCHANGED <<parseVars, pathVars, dirVars, diskVars, env, loadGuard, cand, outcomes, reads,
                   epoch, resets, writes, profilerVars>>

\* The step as the load run sees it, the log left as it is
LoadConfig_sb(p) == LoadConfigCore_sb(p) /\ UNCHANGED logVars

\* Bun's file.exists(): false for a missing file; for a directory the
\* answer is left open
ExistsResults(content) ==
    IF content = Missing THEN {FALSE}
    ELSE IF content = Directory THEN {TRUE, FALSE}
    ELSE {TRUE}

\* loadDotenvFile, first await: file.exists()
ExistsCore_sb(p) ==
    /\ variant = "sb"
    /\ pc[p] = "exists"
    /\ LET path == PathAt_sb(config[p], next[p], homeDir, cwdDir)
       IN /\ reads' = [reads EXCEPT ![p] = Append(@, resolve(path, cwdDir))]
          /\ \E found \in ExistsResults(FileAt(path)) :
                IF found
                  THEN /\ pc' = [pc EXCEPT ![p] = "text"]
                       /\ UNCHANGED <<next, outcomes>>
                  ELSE /\ outcomes' = [outcomes EXCEPT ![p] =
                                          Append(@, FailedOutcome(path))]
                       /\ Advance_sb(p, config[p], next[p] + 1)
    /\ UNCHANGED <<parseVars, pathVars, dirVars, diskVars, env, loadGuard, loggingEnabled, cand,
                   config, configPath, filesToLoad, epoch, resets, writes, profilerVars>>

\* The step as the load run sees it, the log left as it is
Exists_sb(p) == ExistsCore_sb(p) /\ UNCHANGED logVars

\* The result of loadDotenvFile once the content is read
loadResult_sb(path, content) ==
    IF content = Missing \/ content = Directory
      THEN FailedOutcome(path)
      ELSE LET envVars == parseDotenv_sb(content)
           IN Outcome(path, TRUE, Cardinality(DOMAIN envVars), envVars)

\* loadDotenvFile, second await: file.text(), then the variables are set
TextCore_sb(p) ==
    /\ variant = "sb"
    /\ pc[p] = "text"
    /\ LET path == PathAt_sb(config[p], next[p], homeDir, cwdDir)
           r == loadResult_sb(path, FileAt(path))
       IN /\ env' = IF r.success THEN ApplyVars(env, r.vars, config[p].prefix) ELSE env
          /\ outcomes' = [outcomes EXCEPT ![p] = Append(@, r)]
          /\ Advance_sb(p, config[p], next[p] + 1)
    /\ UNCHANGED <<parseVars, pathVars, dirVars, diskVars, loadGuard, loggingEnabled, cand, config,
                   configPath, filesToLoad, reads, epoch, resets, writes, profilerVars>>

\* The step as the load run sees it, the log left as it is
Text_sb(p) == TextCore_sb(p) /\ UNCHANGED logVars

\* await flushLogs(), then return {}
FlushCore_sb(p) ==
    /\ variant = "sb"
    /\ pc[p] = "flush"
    /\ pc' = [pc EXCEPT ![p] = "returned"]
    /\ UNCHANGED <<parseVars, pathVars, dirVars, diskVars, env, loadGuard, loggingEnabled, cand,
                   config, configPath, filesToLoad, next, outcomes, reads, epoch,
                   resets, writes, profilerVars>>

\* The step as the load run sees it, the log left as it is
Flush_sb(p) == FlushCore_sb(p) /\ UNCHANGED logVars

\* The guarded generation's tests reset the guard themselves:
\* delete globalThis[LOAD_GUARD]
Reset_sb ==
    /\ variant = "sb"
    /\ resets < MaxResets
    /\ resets' = resets + 1
    /\ loadGuard' = FALSE
    /\ UNCHANGED <<logVars, parseVars, pathVars,
                   dirVars, diskVars, env, loggingEnabled, procVars, writes,
                   profilerVars>>

----------------------------------------------------------------------------
(* The plugin's surroundings and the specification.                        *)

\* An environment file is written, removed or replaced by a directory.
WriteFile ==
    /\ writes < MaxWrites
    /\ writes' = writes + 1
    /\ \E path \in WritablePaths, content \in WriteContents :
          /\ fs[path] # content
          /\ fs' = [fs EXCEPT ![path] = content]
    /\ UNCHANGED <<logVars, parseVars, pathVars,
                   dirVars, variant, cfgFs, env, loadGuard, loggingEnabled,
                   procVars, resets, profilerVars>>

\* Nothing logged yet, and no LOG_FILE.
NoLogging ==
    /\ inFlight = {}
    /\ logFile = [exists |-> FALSE, lines |-> <<>>]
    /\ msgCount = 0
    /\ logFailed = FALSE

\* No call of the decoder is under way.
NoParseCall ==
    /\ parseCall = "none"
    /\ parseArg = <<>>
    /\ parseDone = FALSE
    /\ decodedMap = EmptyMap
    /\ decodedValue = <<>>

\* The plugin as loaded, nothing invoked: generation v with the documents
\* local and global at the two config locations.
MainStart(v, local, global) ==
    /\ variant = v
    /\ cfgFs = [n \in {"local", "global"} |-> IF n = "local" THEN local ELSE global]
    /\ fs = InitialFs
    /\ env = InitialEnv
    /\ loadGuard = FALSE
    /\ loggingEnabled = (v = "sb")
    /\ pc = [p \in Invocations |-> "idle"]
    /\ cand = [p \in Invocations |-> 0]
    /\ config = [p \in Invocations |-> NoConfig]
    /\ configPath = [p \in Invocations |-> "null"]
    /\ filesToLoad = [p \in Invocations |-> <<>>]
    /\ next = [p \in Invocations |-> 0]
    /\ outcomes = [p \in Invocations |-> <<>>]
    /\ reads = [p \in Invocations |-> <<>>]
    /\ epoch = [p \in Invocations |-> 0]
    /\ resets = 0
    /\ writes = 0
    /\ fileMetrics = <<>>
    /\ totalVars = 0
    /\ measures = NoMeasures
    /\ initState = "idle"
    /\ profConfigPath = "null"
    /\ NoLogging

Init ==
    /\ rawPath = <<>>
    /\ pathResult = Pending
    /\ homeDir = Home
    /\ cwdDir = Cwd
    /\ NoParseCall
    /\ \/ \E local \in ConfigDocs, global \in GlobalDocs : MainStart("pf", local, global)
       \/ \E global \in ConfigDocs : MainStart("sb", DocMissing, global)

Next ==
    \/ \E p \in Invocations : Invoke_pf(p)
    \/ \E p \in Invocations : ReadCandidate_pf(p)
    \/ \E p \in Invocations : LoadFile_pf(p)
    \/ Reset_pf
    \/ \E p \in Invocations : Invoke_sb(p)
    \/ \E p \in Invocations : LoadConfig_sb(p)
    \/ \E p \in Invocations : Exists_sb(p)
    \/ \E p \in Invocations : Text_sb(p)
    \/ \E p \in Invocations : Flush_sb(p)
    \/ Reset_sb
    \/ WriteFile

Spec == Init /\ [][Next]_vars

----------------------------------------------------------------------------
(* The path guard on its own: expandPath applied to every raw path of a    *)
(* bounded alphabet, under several home and working directories.           *)

\* Longest raw path, in characters.
MaxPathLen == 5

PathChars == {"~", "/", ".", "h", "w", "e"}

RECURSIVE StringsUpTo(_, _)
StringsUpTo(chars, n) ==
    IF n = 0 THEN {<<>>}
    ELSE LET shorter == StringsUpTo(chars, n - 1)
         IN shorter \cup {Append(s, c) : s \in {t \in shorter : Len(t) = n - 1},
                                         c \in chars}

RawPaths == StringsUpTo(PathChars, MaxPathLen) \cup {NonString}

\* process.env.HOME
HomeDirs == {<<"/", "h">>, <<"/", "e", "/", "h">>}
\* process.cwd()
CwdDirs == {<<"/", "w">>}

InitPath ==
    /\ rawPath \in RawPaths
    /\ homeDir \in HomeDirs
    /\ cwdDir \in CwdDirs
    /\ pathResult = Pending
    /\ NoParseCall
    /\ MainStart("sb", DocMissing, DocMissing)

\* A call expandPath(rawPath).
ExpandPathCall ==
    /\ pathResult = Pending
    /\ pathResult' = expandPath_sb(rawPath, homeDir, cwdDir)
    /\ UNCHANGED <<rawPath, dirVars, mainVars, parseVars>>

NextPath == ExpandPathCall

SpecPath == InitPath /\ [][NextPath]_vars

----------------------------------------------------------------------------
(* The location a raw path denotes, computed from the last segment back:   *)
(* a ".." cancels the nearest named segment before it.                     *)

RECURSIVE WalkBack(_, _, _)
WalkBack(segs, skip, acc) ==
    IF Len(segs) = 0 THEN acc
    ELSE LET s == segs[Len(segs)]
             front == SubSeq(segs, 1, Len(segs) - 1)
         IN IF s = <<>> \/ s = DotSeg THEN WalkBack(front, skip, acc)
            ELSE IF s = DotDotSeg THEN WalkBack(front, skip + 1, acc)
            ELSE IF skip > 0 THEN WalkBack(front, skip - 1, acc)
            ELSE WalkBack(front, 0, <<s>> \o acc)

Located(raw, home, cwd) ==
    LET tilde == IF Len(raw) > 0 /\ raw[1] = "~" THEN home \o Tail(raw) ELSE raw
        full == IF IsAbsolute(tilde) THEN tilde ELSE cwd \o Slash \o tilde
    IN Slash \o Join(WalkBack(Split(full, "/"), 0, <<>>), Slash)

\* p lies in the directory tree rooted at root.
InTree(p, root) == p = root \/ StartsWith(p, root \o Slash)

HasDotDot(raw) == \E i \in 1..Len(Split(raw, "/")) : Split(raw, "/")[i] = DotDotSeg

\* C7: PathGuard is fail-closed against traversal: a raw path with ".."
\* segments whose location lies neither in the home directory tree nor in the
\* working directory tree is rejected (expandPath returns null).
C7_TraversalRejected ==
    (/\ pathResult # Pending
     /\ IsString(rawPath)
     /\ HasDotDot(rawPath)
     /\ ~InTree(Located(rawPath, homeDir, cwdDir), homeDir)
     /\ ~InTree(Located(rawPath, homeDir, cwdDir), cwdDir))
    => pathResult = Null

\* C8: for a string, expandPath returns the normalized absolute location of
\* the path (leading ~ replaced by the home directory, relative paths taken
\* from the working directory) when that location begins with the home
\* directory or the working directory, and null otherwise; for a non-string
\* it returns null.
C8_PathGuardResult ==
    pathResult # Pending =>
        IF ~IsString(rawPath) THEN pathResult = Null
        ELSE LET loc == Located(rawPath, homeDir, cwdDir)
             IN IF StartsWith(loc, homeDir) \/ StartsWith(loc, cwdDir)
                  THEN pathResult = loc
                  ELSE pathResult = Null

\* C8 witness: a path with a leading ~ that is accepted, lies strictly below
\* the home directory, and was changed by normalization.
C8_Witness ==
    /\ pathResult # Pending
    /\ pathResult # Null
    /\ IsString(rawPath)
    /\ Len(rawPath) > 0
    /\ rawPath[1] = "~"
    /\ pathResult # ReplaceLeadingTilde(rawPath, homeDir)
    /\ Len(pathResult) > Len(homeDir)
    /\ StartsWith(pathResult, homeDir)

----------------------------------------------------------------------------
(* Vocabulary of the claims about a load run.                              *)

\* Invocation p has gone past the load guard.
Loader(p) == pc[p] \notin {"idle", "skipped"}

\* Invocation p has its configuration.
HasConfig(p) == pc[p] \in {"load", "exists", "text", "flush", "returned", "threw"}

\* Invocation p ran to its return and no other invocation loaded anything:
\* process.env holds the effect of this one load run.
SoleRunDone(p) ==
    /\ pc[p] = "returned"
    /\ \A q \in Invocations \ {p} : ~Loader(q)

\* The prefix the run puts before every variable name.
PrefixOf(p) == IF variant = "sb" THEN config[p].prefix ELSE <<>>

\* The paths of the outcomes of invocation p, in the order recorded.
OutcomePaths(p) == [i \in 1..Len(outcomes[p]) |-> outcomes[p][i].path]

\* Outcome i of invocation p is a loaded file that defines key k.
Defines(p, i, k) == outcomes[p][i].success /\ k \in DOMAIN outcomes[p][i].vars

\* Outcome i is the last loaded file of invocation p that defines key k.
LastDefining(p, i, k) ==
    /\ Defines(p, i, k)
    /\ \A j \in (i + 1)..Len(outcomes[p]) : ~Defines(p, j, k)

\* The file a config.files entry names on disk.
EntryLocation(raw) == resolve(ReplaceLeadingTilde(raw, homeDir), cwdDir)

\* The entry passes the path guard (every string does in the profiler
\* generation, which has no guard).
EntryAccepted(raw) ==
    IF variant = "sb" THEN expandPath_sb(raw, homeDir, cwdDir) # Null
    ELSE IsString(raw)

\* The path under which the plugin loads an accepted entry.
EntryPath(raw) ==
    IF variant = "sb" THEN expandPath_sb(raw, homeDir, cwdDir)
    ELSE ReplaceLeadingTilde(raw, homeDir)

\* The ordered file list of the specification for a configuration: the
\* accepted entries of config.files in array order, then cwd/.env unless
\* load_cwd_env is false.
OrderedFileList(cfg) ==
    LET accepted == SelectSeq(cfg.files, EntryAccepted)
    IN [i \in 1..Len(accepted) |-> EntryPath(accepted[i])]
       \o (IF cfg.load_cwd_env # "false" THEN <<CwdEnvPath(cwdDir)>> ELSE <<>>)

\* C1: override law: after a load run, the files were loaded in the order
\* of the file list, and every key a loaded file defines has the value of
\* the last loaded file that defines it.
C1_OverrideLaw ==
    \A p \in Invocations : SoleRunDone(p) =>
        /\ OutcomePaths(p) = OrderedFileList(config[p])
        /\ \A i \in 1..Len(outcomes[p]) : \A k \in DOMAIN outcomes[p][i].vars :
              LastDefining(p, i, k) =>
                 /\ PrefixOf(p) \o k \in DOMAIN env
                 /\ env[PrefixOf(p) \o k] = outcomes[p][i].vars[k]

\* C1 witness: a finished run in which two loaded files give the same key
\* different values.
C1_Witness ==
    \E p \in Invocations : SoleRunDone(p) /\
        \E i, j \in 1..Len(outcomes[p]) : \E k \in DOMAIN outcomes[p][j].vars :
            /\ i < j
            /\ Defines(p, i, k)
            /\ LastDefining(p, j, k)
            /\ outcomes[p][i].vars[k] # outcomes[p][j].vars[k]

\* C2: when load_cwd_env is not false, cwd/.env is loaded last, after every
\* config.files entry, and every key it defines ends with its value.
C2_CwdEnvLast ==
    \A p \in Invocations :
        (SoleRunDone(p) /\ config[p].load_cwd_env # "false") =>
            LET n == Len(outcomes[p])
            IN /\ n = Len(SelectSeq(config[p].files, EntryAccepted)) + 1
               /\ outcomes[p][n].path = CwdEnvPath(cwdDir)
               /\ \A k \in DOMAIN outcomes[p][n].vars :
                     outcomes[p][n].success =>
                        env[PrefixOf(p) \o k] = outcomes[p][n].vars[k]

\* C2 witness: a finished run whose cwd/.env overrides a key that a
\* config.files entry defined with another value.
C2_Witness ==
    \E p \in Invocations :
        /\ SoleRunDone(p)
        /\ config[p].load_cwd_env # "false"
        /\ Len(outcomes[p]) >= 2
        /\ LET n == Len(outcomes[p])
           IN \E i \in 1..(n - 1) : \E k \in DOMAIN outcomes[p][n].vars :
                 /\ outcomes[p][n].success
                 /\ Defines(p, i, k)
                 /\ outcomes[p][i].vars[k] # outcomes[p][n].vars[k]
                 /\ env[PrefixOf(p) \o k] = outcomes[p][n].vars[k]

\* An entry of config.files names cwd/.env itself.
ListsCwdEnv(cfg) ==
    \E i \in 1..Len(cfg.files) :
        /\ IsString(cfg.files[i])
        /\ EntryLocation(cfg.files[i]) = CwdEnvPath(cwdDir)

\* C3, as stated: with load_cwd_env false, cwd/.env is never read, whatever
\* config.files contains.
C3_CwdEnvNeverRead ==
    \A p \in Invocations :
        (HasConfig(p) /\ config[p].load_cwd_env = "false") =>
            \A i \in 1..Len(reads[p]) : reads[p][i] # CwdEnvPath(cwdDir)

\* C3, amended: with load_cwd_env false and no config.files entry that
\* names cwd/.env, cwd/.env is never read, and after the run every variable
\* that was not set before comes from a loaded file other than cwd/.env.
C3_CwdEnvNotReadUnlessListed ==
    \A p \in Invocations :
        (/\ HasConfig(p)
         /\ config[p].load_cwd_env = "false"
         /\ ~ListsCwdEnv(config[p])) =>
            /\ \A i \in 1..Len(reads[p]) : reads[p][i] # CwdEnvPath(cwdDir)
            /\ SoleRunDone(p) =>
                  \A name \in (DOMAIN env) \ (DOMAIN InitialEnv) :
                      \E i \in 1..Len(outcomes[p]) : \E k \in DOMAIN outcomes[p][i].vars :
                          /\ Defines(p, i, k)
                          /\ name = PrefixOf(p) \o k
                          /\ resolve(outcomes[p][i].path, cwdDir) # CwdEnvPath(cwdDir)

\* C3 witness: a finished run with load_cwd_env false that loaded a file,
\* while cwd/.env exists and defines a variable.
C3_Witness ==
    \E p \in Invocations :
        /\ SoleRunDone(p)
        /\ config[p].load_cwd_env = "false"
        /\ ~ListsCwdEnv(config[p])
        /\ \E i \in 1..Len(outcomes[p]) : outcomes[p][i].success
        /\ fs[CwdEnvPath(cwdDir)] = TextCwd
        /\ <<"K">> \notin DOMAIN env

\* C4: load guard: once set the guard stays set until a reset; an
\* invocation that finds it set returns at once, reads no file and changes
\* no variable; so no two invocations started between the same two resets
\* both load.
C4_LoadGuard ==
    [][/\ (loadGuard /\ resets' = resets) => loadGuard'
       /\ \A p \in Invocations :
             (pc[p] = "idle" /\ pc'[p] # "idle" /\ loadGuard) =>
                 /\ pc'[p] = "skipped"
                 /\ env' = env
                 /\ reads'[p] = <<>>
                 /\ outcomes'[p] = <<>>
       /\ \A p \in Invocations :
             pc[p] = "skipped" =>
                 /\ pc'[p] = "skipped"
                 /\ reads'[p] = <<>>
                 /\ outcomes'[p] = <<>>
       /\ \A p, q \in Invocations :
             (p # q /\ Loader(p)' /\ Loader(q)') => epoch'[p] # epoch'[q]
      ]_vars

\* C4 witness: one invocation loaded and returned, the file on disk was
\* changed, and a later invocation of the same guard period was skipped.
C4_Witness ==
    \E p, q \in Invocations :
        /\ pc[p] = "returned"
        /\ pc[q] = "skipped"
        /\ epoch[p] = epoch[q]
        /\ writes > 0
        /\ \E i \in 1..Len(outcomes[p]) :
              /\ outcomes[p][i].success
              /\ resolve(outcomes[p][i].path, cwdDir) = CwdEnvPath(cwdDir)
              /\ fs[CwdEnvPath(cwdDir)] = TextChanged
              /\ env[PrefixOf(p) \o <<"A">>] = <<"3">>

\* C5: loaded files override the caller's environment: after a load run a
\* name that a loaded file defines has the (last) file's value whether or
\* not it was set before, and every other name is as it was before the run.
C5_FilesOverrideEnv ==
    \A p \in Invocations : SoleRunDone(p) =>
        \A name \in (DOMAIN env) \cup (DOMAIN InitialEnv) :
            IF \E i \in 1..Len(outcomes[p]) : \E k \in DOMAIN outcomes[p][i].vars :
                  Defines(p, i, k) /\ name = PrefixOf(p) \o k
            THEN \E i \in 1..Len(outcomes[p]) : \E k \in DOMAIN outcomes[p][i].vars :
                    /\ LastDefining(p, i, k)
                    /\ name = PrefixOf(p) \o k
                    /\ name \in DOMAIN env
                    /\ env[name] = outcomes[p][i].vars[k]
            ELSE /\ name \in DOMAIN InitialEnv
                 /\ name \in DOMAIN env
                 /\ env[name] = InitialEnv[name]

\* C5 witness: a finished run after which a name set before the run has a
\* file's value, a name in no loaded file has kept its value, and a name
\* not set before has been added.
C5_Witness ==
    \E p \in Invocations :
        /\ SoleRunDone(p)
        /\ PrefixOf(p) = <<>>
        /\ env[<<"A">>] # InitialEnv[<<"A">>]
        /\ env[<<"X">>] = InitialEnv[<<"X">>]
        /\ <<"B">> \in DOMAIN env

\* C6: in the guarded generation, an entry of config.files that the path
\* guard rejects is never read and gets no outcome, and the run goes on:
\* every accepted entry, before or after it, is loaded in order, then
\* cwd/.env.
C6_RejectedEntrySkipped ==
    \A p \in Invocations : (variant = "sb" /\ HasConfig(p)) =>
        /\ \A i \in 1..Len(config[p].files) :
              LET raw == config[p].files[i]
              IN (IsString(raw) /\ expandPath_sb(raw, homeDir, cwdDir) = Null) =>
                    \A j \in 1..Len(reads[p]) : reads[p][j] # EntryLocation(raw)
        /\ \A j \in 1..Len(outcomes[p]) :
              /\ outcomes[p][j].path # Null
              /\ \/ outcomes[p][j].path = CwdEnvPath(cwdDir)
                 \/ \E i \in 1..Len(config[p].files) :
                       /\ EntryAccepted(config[p].files[i])
                       /\ outcomes[p][j].path = EntryPath(config[p].files[i])
        /\ pc[p] \in {"flush", "returned"} =>
              OutcomePaths(p) = OrderedFileList(config[p])

\* C6 witness: a finished run whose configuration lists a rejected entry
\* followed by an accepted one, which was loaded.
C6_Witness ==
    \E p \in Invocations :
        /\ variant = "sb"
        /\ pc[p] = "returned"
        /\ \E i, j \in 1..Len(config[p].files) :
              /\ i < j
              /\ IsString(config[p].files[i])
              /\ expandPath_sb(config[p].files[i], homeDir, cwdDir) = Null
              /\ fs[EntryLocation(config[p].files[i])] = TextOutside
              /\ expandPath_sb(config[p].files[j], homeDir, cwdDir) # Null
              /\ \E n \in 1..Len(outcomes[p]) :
                    /\ outcomes[p][n].path = expandPath_sb(config[p].files[j], homeDir, cwdDir)
                    /\ outcomes[p][n].success

\* A candidate document is a valid configuration: it parses to an object
\* whose files field is an array.
ValidDocument(doc) == doc.kind = "object" /\ doc.filesKind = "array"

\* The candidates of the running generation, in lookup order.
Candidates == IF variant = "pf" THEN configPaths_pf ELSE <<configPath_sb>>

\* The positions of the valid candidates.
ValidCandidates == {i \in 1..Len(Candidates) : ValidDocument(cfgFs[Candidates[i]])}

\* The first valid candidate.
FirstValid == CHOOSE i \in ValidCandidates : \A j \in ValidCandidates : i <= j

\* C9: configuration resolution stops at the first valid candidate: the
\* configuration, its path and the logging switch all come from that
\* document alone, whatever a later candidate holds.
C9_FirstValidCandidate ==
    \A p \in Invocations :
        (variant = "pf" /\ HasConfig(p) /\ ValidCandidates # {}) =>
            LET doc == cfgFs[Candidates[FirstValid]]
            IN /\ configPath[p] = Candidates[FirstValid]
               /\ config[p].files = doc.files
               /\ config[p].load_cwd_env = doc.load_cwd_env
               /\ loggingEnabled = (doc.logging = "true")

\* C9 witness: a finished run with two valid candidates that differ.
C9_Witness ==
    \E p \in Invocations :
        /\ variant = "pf"
        /\ pc[p] = "returned"
        /\ ValidCandidates = {1, 2}
        /\ cfgFs[Candidates[1]].files # cfgFs[Candidates[2]].files
        /\ cfgFs[Candidates[1]].load_cwd_env # cfgFs[Candidates[2]].load_cwd_env
        /\ cfgFs[Candidates[1]].logging # cfgFs[Candidates[2]].logging

----------------------------------------------------------------------------
(* The decoder on its own: parseDotenv applied to every document, and      *)
(* parseValue to every raw value, of bounded sets.                         *)

\* Longest free-form document, in characters.
MaxDocLen == 4
\* Most lines of a document made of whole lines.
MaxLines == 3
\* Longest raw value, in characters.
MaxValueLen == 5

DocChars == {"A", "1", "-", "=", NL, " ", BS, "#"}

\* Lines of the kinds the decoder tells apart: assignments, a repeated key,
\* keys outside the pattern, an empty key, a comment, a blank line, export,
\* padding, lines that end in a backslash, and a line without "=".
LinePool ==
    { <<"A", "=", "1">>,
      <<"A", "=", "2">>,
      <<"B", "=", "3">>,
      <<"1", "A", "=", "4">>,
      <<"A", "-", "B", "=", "5">>,
      <<"A", " ", "B", "=", "6">>,
      <<"A", ".", "B", "=", "7">>,
      <<"=", "8">>,
      <<"#", " ", "A", "=", "9">>,
      <<>>,
      <<"e", "x", "p", "o", "r", "t", " ", "A", "=", "5">>,
      <<" ", "B", " ", "=", " ", "6", " ">>,
      <<"A", "=", "7", BS>>,
      <<"B", BS>>,
      <<"A">> }

\* The documents of 1..n lines of the pool.
LineDocuments(n) ==
    UNION {{Join(ls, <<NL>>) : ls \in [1..k -> LinePool]} : k \in 1..n}

Documents ==
    StringsUpTo(DocChars, MaxDocLen) \cup LineDocuments(MaxLines) \cup {NonString}

ValueChars == {DQ, SQ, BS, "n", " ", "#"}

\* Raw values of the decoder's tests that need a longer text.
SampleValues ==
    { <<DQ, BS, "n", BS, "r", BS, "t", BS, DQ, BS, BS, DQ>>,
      <<SQ, BS, "n", BS, "t", SQ>>,
      <<DQ, "1", "2", DQ, " ", "#", " ", "c">>,
      <<SQ, "1", "2", SQ, " ", "#", " ", "c">>,
      <<" ", "v", " ", " ", "#", " ", "c">>,
      <<"v", "#", "c">>,
      <<DQ, "u", "n", "c", "l", "o", "s", "e", "d">> }

RawValues == StringsUpTo(ValueChars, MaxValueLen) \cup SampleValues \cup {NonString}

InitParse ==
    /\ rawPath = <<>>
    /\ pathResult = Pending
    /\ homeDir = Home
    /\ cwdDir = Cwd
    /\ MainStart("sb", DocMissing, DocMissing)
    /\ parseDone = FALSE
    /\ decodedMap = EmptyMap
    /\ decodedValue = <<>>
    /\ \/ parseCall = "parseDotenv" /\ parseArg \in Documents
       \/ parseCall = "parseValue" /\ parseArg \in RawValues

\* A call parseDotenv(parseArg).
ParseDotenvCall ==
    /\ parseCall = "parseDotenv"
    /\ ~parseDone
    /\ parseDone' = TRUE
    /\ decodedMap' = parseDotenv_sb(parseArg)
    /\ UNCHANGED <<parseCall, parseArg, decodedValue, pathVars, dirVars, mainVars>>

\* A call parseValue(parseArg).
ParseValueCall ==
    /\ parseCall = "parseValue"
    /\ ~parseDone
    /\ parseDone' = TRUE
    /\ decodedValue' = parseValue(parseArg)
    /\ UNCHANGED <<parseCall, parseArg, decodedMap, pathVars, dirVars, mainVars>>

NextParse == ParseDotenvCall \/ ParseValueCall

SpecParse == InitParse /\ [][NextParse]_vars

----------------------------------------------------------------------------
(* Claims about configuration lookup and failing files.                    *)

\* C11: config search order is local first: the working directory's
\* dotenv.jsonc is the first candidate read and, when it is valid, the
\* configuration is its content whatever the global one holds; the global
\* candidate is read, and used, only when the local one is absent or invalid.
C11_LocalConfigFirst ==
    /\ [](\A p \in Invocations : (variant = "pf" /\ HasConfig(p)) =>
            /\ ValidDocument(cfgFs["local"]) =>
                  /\ configPath[p] = "local"
                  /\ config[p].files = cfgFs["local"].files
                  /\ config[p].load_cwd_env = cfgFs["local"].load_cwd_env
            /\ configPath[p] = "global" =>
                  /\ ~ValidDocument(cfgFs["local"])
                  /\ ValidDocument(cfgFs["global"])
                  /\ config[p].files = cfgFs["global"].files
                  /\ config[p].load_cwd_env = cfgFs["global"].load_cwd_env)
    /\ [][\A p \in Invocations : (variant = "pf" /\ cand'[p] # cand[p]) =>
             \/ /\ cand[p] = 0
                /\ configPaths_pf[cand'[p]] = "local"
             \/ /\ cand[p] > 0
                /\ configPaths_pf[cand[p]] = "local"
                /\ configPaths_pf[cand'[p]] = "global"
                /\ ~ValidDocument(cfgFs["local"])
       ]_vars

\* C11 witness: a finished run whose local candidate is present but invalid
\* and whose configuration is the valid global one.
C11_Witness ==
    \E p \in Invocations :
        /\ variant = "pf"
        /\ pc[p] = "returned"
        /\ cfgFs["local"].kind \notin {"missing", "empty"}
        /\ ~ValidDocument(cfgFs["local"])
        /\ configPath[p] = "global"
        /\ config[p].files = cfgFs["global"].files
        /\ Len(config[p].files) > 0
        /\ \E i \in 1..Len(outcomes[p]) : outcomes[p][i].success

\* Invocation p gets the outcome of one more file in this step.
OutcomeAdded(p) == Len(outcomes'[p]) = Len(outcomes[p]) + 1

\* C12: a file of the ordered list that does not exist or cannot be read
\* yields a failed outcome with count 0 and changes no environment variable,
\* and the run goes on: it does not raise, a finished run has an outcome for
\* every file of the list, and a later file that holds text is applied.
C12_UnreadableFileSkipped ==
    /\ [](\A p \in Invocations :
            pc[p] \in {"flush", "returned"} =>
                OutcomePaths(p) = OrderedFileList(config[p]))
    /\ [][\A p \in Invocations : OutcomeAdded(p) =>
             LET o == outcomes'[p][Len(outcomes'[p])]
                 content == FileAt(o.path)
                 last == Len(outcomes'[p]) = Len(OrderedFileList(config[p]))
             IN /\ content \in {Missing, Directory} =>
                      /\ ~o.success
                      /\ o.count = 0
                      /\ o.vars = EmptyMap
                      /\ env' = env
                      /\ pc'[p] # "threw"
                      /\ ~last => pc'[p] \in {"load", "exists"}
                /\ content \notin {Missing, Directory, <<>>} =>
                      /\ o.success
                      /\ \A k \in DOMAIN o.vars :
                            env'[PrefixOf(p) \o k] = o.vars[k]
       ]_vars

\* C12 witness: a finished run in which a file that is missing or is a
\* directory failed with count 0 and a later file was loaded and applied.
C12_Witness ==
    \E p \in Invocations :
        /\ SoleRunDone(p)
        /\ \E i, j \in 1..Len(outcomes[p]) :
              /\ i < j
              /\ ~outcomes[p][i].success
              /\ outcomes[p][i].count = 0
              /\ FileAt(outcomes[p][i].path) \in {Missing, Directory}
              /\ outcomes[p][j].success
              /\ \E k \in DOMAIN outcomes[p][j].vars :
                    env[PrefixOf(p) \o k] = outcomes[p][j].vars[k]

\* C13: no condition is fatal: whatever the config candidates and the
\* environment files hold, no invocation of DotEnvPlugin raises an error.
C13_NoFatalCondition ==
    \A p \in Invocations : pc[p] # "threw"

----------------------------------------------------------------------------
(* Claims about the decoder.                                               *)

\* parseDotenv has returned the map of a document.
DocumentDecoded == parseCall = "parseDotenv" /\ parseDone /\ IsString(parseArg)

\* The physical lines of the document decoded.
DocLines == Split(parseArg, NL)

\* The document is made of lines of the pool, none of which has a backslash:
\* every physical line is a logical line.
PlainLineDocument ==
    /\ DocumentDecoded
    /\ \A i \in 1..Len(DocLines) :
          /\ DocLines[i] \in LinePool
          /\ \A j \in 1..Len(DocLines[i]) : DocLines[i][j] # BS

\* The lines of the pool that are assignments to a valid key, with the key
\* and the value the specification gives them.  Every other line of the
\* pool without a backslash inserts nothing.
Assignments ==
    { [text |-> <<"A", "=", "1">>, key |-> <<"A">>, value |-> <<"1">>],
      [text |-> <<"A", "=", "2">>, key |-> <<"A">>, value |-> <<"2">>],
      [text |-> <<"B", "=", "3">>, key |-> <<"B">>, value |-> <<"3">>],
      [text |-> <<"e", "x", "p", "o", "r", "t", " ", "A", "=", "5">>,
       key |-> <<"A">>, value |-> <<"5">>],
      [text |-> <<" ", "B", " ", "=", " ", "6", " ">>,
       key |-> <<"B">>, value |-> <<"6">>] }

IsAssignment(line) == \E a \in Assignments : a.text = line
AssignmentOf(line) == CHOOSE a \in Assignments : a.text = line

\* The key matches ^[A-Za-z_][A-Za-z0-9_]*$.
MatchesKeyPattern(k) ==
    /\ k # <<>>
    /\ k[1] \notin Digits
    /\ \A i \in 1..Len(k) : k[i] \in Letters \cup Digits

\* C14: every key of the map the decoder returns matches the key pattern;
\* a line whose key is empty or outside the pattern inserts nothing, and the
\* other lines of the document are still decoded.
C14_DecodedKeysValid ==
    /\ DocumentDecoded => \A k \in DOMAIN decodedMap : MatchesKeyPattern(k)
    /\ PlainLineDocument =>
          DOMAIN decodedMap =
             {AssignmentOf(DocLines[i]).key :
                 i \in {j \in 1..Len(DocLines) : IsAssignment(DocLines[j])}}

\* C14 witness: a decoded document in which an assignment stands between a
\* line whose key starts with a digit and a line whose key has a dash.
C14_Witness ==
    /\ PlainLineDocument
    /\ Len(DocLines) = 3
    /\ DocLines[1] = <<"1", "A", "=", "4">>
    /\ IsAssignment(DocLines[2])
    /\ DocLines[3] = <<"A", "-", "B", "=", "5">>
    /\ DOMAIN decodedMap = {AssignmentOf(DocLines[2]).key}

\* The positions of the lines that assign key k.
LinesAssigning(k) ==
    {i \in 1..Len(DocLines) :
        IsAssignment(DocLines[i]) /\ AssignmentOf(DocLines[i]).key = k}

\* C15: within one document the last assignment to a key wins, and the map
\* has one entry for each distinct valid key.
C15_LastAssignmentWins ==
    PlainLineDocument =>
        /\ \A i \in 1..Len(DocLines) : IsAssignment(DocLines[i]) =>
              LET a == AssignmentOf(DocLines[i])
              IN (\A j \in LinesAssigning(a.key) : j <= i) =>
                    /\ a.key \in DOMAIN decodedMap
                    /\ decodedMap[a.key] = a.value
        /\ Cardinality(DOMAIN decodedMap) =
              Cardinality({k \in {a.key : a \in Assignments} : LinesAssigning(k) # {}})

\* C15 witness: a decoded document that assigns one key twice with
\* different values, and another key in between.
C15_Witness ==
    /\ PlainLineDocument
    /\ Len(DocLines) = 3
    /\ IsAssignment(DocLines[1])
    /\ IsAssignment(DocLines[2])
    /\ IsAssignment(DocLines[3])
    /\ AssignmentOf(DocLines[1]).key = AssignmentOf(DocLines[3]).key
    /\ AssignmentOf(DocLines[1]).key # AssignmentOf(DocLines[2]).key
    /\ AssignmentOf(DocLines[1]).value # AssignmentOf(DocLines[3]).value
    /\ decodedMap[AssignmentOf(DocLines[3]).key] = AssignmentOf(DocLines[3]).value
    /\ Cardinality(DOMAIN decodedMap) = 2

\* parseValue has returned the value of a raw string.
ValueDecoded == parseCall = "parseValue" /\ parseDone /\ IsString(parseArg)

\* The raw value without the white space around it.
TrimmedArg == Trim(parseArg)

\* The number of backslashes that stand directly before position j, not
\* counting position 1.
RECURSIVE BackslashesBefore(_, _)
BackslashesBefore(v, j) ==
    IF j > 2 /\ v[j - 1] = BS THEN 1 + BackslashesBefore(v, j - 1) ELSE 0

\* Position j holds an unescaped quote q: an even number of backslashes
\* stands before it.
UnescapedQuoteAt(v, q, j) == v[j] = q /\ BackslashesBefore(v, j) % 2 = 0

\* The position of the closing quote that matches the opening quote v[1],
\* 0 when there is none.
ClosingQuote(v, q) ==
    LET hits == {j \in 2..Len(v) : UnescapedQuoteAt(v, q, j)}
    IN IF hits = {} THEN 0 ELSE CHOOSE j \in hits : \A k \in hits : j <= k

\* The character an escape sequence stands for.
EscapeOf(c) ==
    CASE c = "n" -> NL
      [] c = "r" -> CR
      [] c = "t" -> TAB
      [] c = DQ -> DQ
      [] c = BS -> BS

\* One pass over the text: each escape sequence gives its character.
RECURSIVE OnePassDecode(_)
OnePassDecode(t) ==
    IF t = <<>> THEN <<>>
    ELSE IF t[1] = BS /\ Len(t) >= 2 /\ t[2] \in {"n", "r", "t", DQ, BS}
      THEN <<EscapeOf(t[2])>> \o OnePassDecode(SubSeq(t, 3, Len(t)))
    ELSE <<t[1]>> \o OnePassDecode(Tail(t))

\* The text has an escaped backslash directly followed by n, r or t: the
\* case in which the order of the replacements matters.
RECURSIVE EscapedBackslashBeforeLetter(_)
EscapedBackslashBeforeLetter(t) ==
    IF Len(t) < 3 THEN FALSE
    ELSE IF t[1] = BS
      THEN IF t[2] = BS
             THEN t[3] \in {"n", "r", "t"}
                  \/ EscapedBackslashBeforeLetter(SubSeq(t, 3, Len(t)))
             ELSE EscapedBackslashBeforeLetter(SubSeq(t, 3, Len(t)))
    ELSE EscapedBackslashBeforeLetter(Tail(t))

UnterminatedQuote ==
    /\ TrimmedArg # <<>>
    /\ TrimmedArg[1] \in {DQ, SQ}
    /\ ClosingQuote(TrimmedArg, TrimmedArg[1]) = 0

\* C17: an unterminated quote fails open: the decoded value is the trimmed
\* raw value unchanged, opening quote included, with no unescaping and no
\* inline-comment stripping; this covers a value that is only the quote
\* character.
C17_UnterminatedQuoteKept ==
    (ValueDecoded /\ UnterminatedQuote) => decodedValue = TrimmedArg

\* C17 witness: an unterminated double quote whose text holds an escape
\* sequence and a " #", returned as it stands.
C17_Witness ==
    /\ ValueDecoded
    /\ UnterminatedQuote
    /\ TrimmedArg[1] = DQ
    /\ IndexOf(TrimmedArg, <<BS, "n">>) # 0
    /\ IndexOf(TrimmedArg, <<" ", "#">>) # 0
    /\ decodedValue = TrimmedArg

\* The trimmed raw value does not open with a quote.
Unquoted == TrimmedArg = <<>> \/ TrimmedArg[1] \notin {DQ, SQ}

\* The first position at which a space directly followed by "#" stands,
\* 0 when there is none.
FirstSpaceHash(v) ==
    LET hits == {j \in 1..(Len(v) - 1) : v[j] = " " /\ v[j + 1] = "#"}
    IN IF hits = {} THEN 0 ELSE CHOOSE j \in hits : \A k \in hits : j <= k

\* C18: an unquoted value decodes to the trimmed text before the first
\* " #", or to the whole trimmed text when there is none; a "#" with no
\* space before it stays in the value.
C18_UnquotedInlineComment ==
    (ValueDecoded /\ Unquoted) =>
        LET v == TrimmedArg
            cut == FirstSpaceHash(v)
        IN decodedValue = IF cut # 0 THEN Trim(SubSeq(v, 1, cut - 1)) ELSE v

\* C18 witness: an unquoted value with a "#" that no space precedes, followed
\* by a " #": the first "#" is kept, the text from the " #" on is dropped.
C18_Witness ==
    /\ ValueDecoded
    /\ Unquoted
    /\ FirstSpaceHash(TrimmedArg) > 2
    /\ TrimmedArg[2] = "#"
    /\ decodedValue = SubSeq(TrimmedArg, 1, 2)

\* The logical line that starts with the text joined so far and has consumed
\* the physical lines up to position last: while the joined text ends in a
\* backslash and a physical line follows, the backslash goes and the raw
\* line is appended.
RECURSIVE UnitFrom(_, _, _)
UnitFrom(lines, text, last) ==
    IF text # <<>> /\ text[Len(text)] = BS /\ last < Len(lines)
      THEN UnitFrom(lines, SubSeq(text, 1, Len(text) - 1) \o lines[last + 1],
                    last + 1)
      ELSE [text |-> text, last |-> last]

\* The logical lines of a document from physical line i on: blank lines and
\* comment lines outside a continuation start none.
RECURSIVE LogicalUnits(_, _)
LogicalUnits(lines, i) ==
    IF i > Len(lines) THEN <<>>
    ELSE LET t == Trim(lines[i])
         IN IF t = <<>> \/ t[1] = "#" THEN LogicalUnits(lines, i + 1)
            ELSE LET u == UnitFrom(lines, t, i)
                 IN <<[first |-> i, last |-> u.last, text |-> u.text]>>
                       \o LogicalUnits(lines, u.last + 1)

DocUnits == LogicalUnits(DocLines, 1)

\* Characters that neither trimming, nor "export", nor quoting, nor an
\* inline comment touches.
BareChars == Letters \cup Digits \cup {"=", "-", ".", BS}

\* Every logical line of the decoded document is bare: its key is the text
\* before its first "=" and its value the text after it, as they stand.
BareDocument ==
    /\ DocumentDecoded
    /\ \A n \in 1..Len(DocUnits) :
          \A j \in 1..Len(DocUnits[n].text) : DocUnits[n].text[j] \in BareChars

FirstEquals(t) ==
    LET hits == {j \in 1..Len(t) : t[j] = "="}
    IN IF hits = {} THEN 0 ELSE CHOOSE j \in hits : \A k \in hits : j <= k

UnitKey(t) == SubSeq(t, 1, FirstEquals(t) - 1)
UnitValue(t) == SubSeq(t, FirstEquals(t) + 1, Len(t))

\* The logical lines that assign key k.
UnitsAssigning(k) ==
    {n \in 1..Len(DocUnits) :
        FirstEquals(DocUnits[n].text) # 0 /\ UnitKey(DocUnits[n].text) = k}

\* C19: line continuation: a non-comment line that ends, once trimmed, in a
\* backslash is joined with the raw line that follows it, the backslash
\* removed, until the joined line ends in no backslash or no line is left;
\* the map holds what the logical lines assign and nothing else, so a
\* physical line consumed by a continuation is never decoded as an assignment
\* of its own, and a backslash that ends the last line stays in the value.
C19_LineContinuation ==
    BareDocument =>
        /\ \A k \in DOMAIN decodedMap : UnitsAssigning(k) # {}
        /\ \A n \in 1..Len(DocUnits) :
              LET t == DocUnits[n].text
                  k == UnitKey(t)
              IN (FirstEquals(t) # 0 /\ MatchesKeyPattern(k)) =>
                    /\ k \in DOMAIN decodedMap
                    /\ (\A m \in UnitsAssigning(k) : m <= n) =>
                          decodedMap[k] = UnitValue(t)

\* C19 witness: three physical lines joined into one logical line by two
\* continuations; the third is an assignment to B when read alone, and the
\* map holds A with the joined text and no B.
C19_Witness ==
    /\ BareDocument
    /\ Len(DocLines) = 3
    /\ Len(DocUnits) = 1
    /\ DocUnits[1].last = 3
    /\ DocLines[3] = <<"B", "=", "3">>
    /\ DOMAIN decodedMap = {<<"A">>}
    /\ decodedMap[<<"A">>] = <<"7", "B", "B", "=", "3">>

----------------------------------------------------------------------------
(* Claims about the names written.                                         *)

\* The keys decoded from the files invocation p loaded.
DecodedKeys(p) ==
    UNION {DOMAIN outcomes[p][i].vars :
              i \in {j \in 1..Len(outcomes[p]) : outcomes[p][j].success}}

\* The names under which the run of invocation p writes its variables.
WrittenNames(p) == {config[p].prefix \o k : k \in DecodedKeys(p)}

\* The run left name n as the caller had it.
LeftUnchanged(n) ==
    /\ n \in DOMAIN env <=> n \in DOMAIN InitialEnv
    /\ n \in DOMAIN InitialEnv => env[n] = InitialEnv[n]

\* The run of invocation p wrote every decoded key under prefix + key, with
\* the value of the last file that defines it.
WrittenUnderPrefix(p) ==
    \A i \in 1..Len(outcomes[p]) : \A k \in DOMAIN outcomes[p][i].vars :
        LastDefining(p, i, k) =>
            /\ config[p].prefix \o k \in DOMAIN env
            /\ env[config[p].prefix \o k] = outcomes[p][i].vars[k]

\* C20, as stated: with a non-empty prefix every decoded KEY is written under
\* prefix + KEY and the unprefixed name KEY is left unchanged by the run; with
\* no prefix the name is KEY itself.
C20_UnprefixedNameUnchanged ==
    \A p \in Invocations : (variant = "sb" /\ SoleRunDone(p)) =>
        /\ WrittenUnderPrefix(p)
        /\ config[p].prefix # <<>> =>
              \A k \in DecodedKeys(p) : LeftUnchanged(k)

\* C20, amended: with a non-empty prefix every decoded KEY is written under
\* prefix + KEY, and the unprefixed name KEY is left unchanged by the run
\* unless KEY is itself prefix + KEY' for a decoded KEY'; every name that is
\* no prefix + KEY is left unchanged; with no prefix the name is KEY itself.
C20_PrefixedNamesWritten ==
    \A p \in Invocations : (variant = "sb" /\ SoleRunDone(p)) =>
        /\ WrittenUnderPrefix(p)
        /\ \A n \in (DOMAIN env) \cup (DOMAIN InitialEnv) \cup DecodedKeys(p) :
              n \notin WrittenNames(p) => LeftUnchanged(n)

\* C20 witness: a finished run with prefix P_ over a file that defines A and
\* P_A: P_A holds the value of A, P_P_A the value of P_A, and A is as the
\* caller had it.
C20_Witness ==
    \E p \in Invocations :
        /\ variant = "sb"
        /\ SoleRunDone(p)
        /\ config[p].prefix = <<"P", "_">>
        /\ DecodedKeys(p) = {<<"A">>, <<"P", "_", "A">>}
        /\ env[<<"P", "_", "A">>] = <<"5">>
        /\ env[<<"P", "_", "P", "_", "A">>] = <<"6">>
        /\ env[<<"A">>] = InitialEnv[<<"A">>]

\* The names the load run of invocation p wrote into process.env.
NamesWritten(p) ==
    {PrefixOf(p) \o k : k \in DecodedKeys(p)}

\* C21: every variable name that a load run writes into the environment
\* matches ^[A-Za-z_][A-Za-z0-9_]*$, for every configuration (including any
\* configured prefix) and every file content.
C21_WrittenNamesValid ==
    \A p \in Invocations : \A n \in NamesWritten(p) : MatchesKeyPattern(n)

----------------------------------------------------------------------------
(* Claims about the course of a load run.                                  *)

\* The metric the profiler keeps for an outcome.
MetricOf(o) == Metric(o.path, o.count, o.success)

\* C24: in a completed run every path of the ordered file list is attempted
\* exactly once and in list order, and exactly one outcome is recorded per
\* path: the outcomes have the length and the order of the list (and so have
\* the profiler's file metrics of a run that no reset and no other run
\* touched); outcomes come one at a time, each for the next path of the
\* list, and none is ever changed or removed.
C24_OneOutcomePerPath ==
    /\ [](\A p \in Invocations : pc[p] = "returned" =>
            LET list == OrderedFileList(config[p])
            IN /\ Len(outcomes[p]) = Len(list)
               /\ \A i \in 1..Len(list) : outcomes[p][i].path = list[i]
               /\ reads[p] = [i \in 1..Len(list) |-> resolve(list[i], cwdDir)]
               /\ (variant = "pf" /\ SoleRunDone(p) /\ epoch[p] = resets) =>
                     fileMetrics = [i \in 1..Len(list) |-> MetricOf(outcomes[p][i])])
    /\ [][\A p \in Invocations :
             /\ Len(outcomes'[p]) \in {Len(outcomes[p]), Len(outcomes[p]) + 1}
             /\ SubSeq(outcomes'[p], 1, Len(outcomes[p])) = outcomes[p]
             /\ OutcomeAdded(p) =>
                   /\ Len(outcomes'[p]) <= Len(OrderedFileList(config[p]))
                   /\ outcomes'[p][Len(outcomes'[p])].path =
                         OrderedFileList(config[p])[Len(outcomes'[p])]
       ]_vars

\* C24 witness: a completed run over three paths of which one failed and one
\* was loaded, with three outcomes and three file metrics.
C24_Witness ==
    \E p \in Invocations :
        /\ variant = "pf"
        /\ SoleRunDone(p)
        /\ epoch[p] = resets
        /\ Len(OrderedFileList(config[p])) = 3
        /\ Len(outcomes[p]) = 3
        /\ Len(fileMetrics) = 3
        /\ \E i, j \in 1..3 : ~outcomes[p][i].success /\ outcomes[p][j].success

\* A file read of invocation p is in flight.
Reading(p) == pc[p] \in {"load", "exists", "text"}

\* The path whose read is in flight.
PathInFlight(p) ==
    IF variant = "pf" THEN filesToLoad[p][next[p]]
    ELSE PathAt_sb(config[p], next[p], homeDir, cwdDir)

\* C25: file loading is strictly sequential within a run: the one read in
\* flight is that of the first path of the list without an outcome, so every
\* earlier read is over and no later read has started; and when the read of
\* file i ends, its variables are all written in the same step, before the
\* read of file i+1 is in flight.
C25_SequentialLoading ==
    /\ [](\A p \in Invocations : Reading(p) =>
            LET list == OrderedFileList(config[p])
            IN /\ Len(outcomes[p]) < Len(list)
               /\ PathInFlight(p) = list[Len(outcomes[p]) + 1])
    /\ [][\A p \in Invocations : OutcomeAdded(p) =>
             LET o == outcomes'[p][Len(outcomes'[p])]
             IN /\ Reading(p)
                /\ o.path = PathInFlight(p)
                /\ o.success =>
                      \A k \in DOMAIN o.vars :
                          /\ PrefixOf(p) \o k \in DOMAIN env'
                          /\ env'[PrefixOf(p) \o k] = o.vars[k]
       ]_vars

\* C25 witness: the read of the second file is in flight; the first file's
\* variables are written, and a key that both files define still has the
\* first file's value.
C25_Witness ==
    \E p \in Invocations :
        /\ Reading(p)
        /\ \A q \in Invocations \ {p} : ~Loader(q)
        /\ Len(outcomes[p]) = 1
        /\ outcomes[p][1].success
        /\ \E k \in DOMAIN outcomes[p][1].vars :
              /\ env[PrefixOf(p) \o k] = outcomes[p][1].vars[k]
              /\ LET later == parseDotenv_pf(FileAt(PathInFlight(p)))
                 IN /\ FileAt(PathInFlight(p)) \notin {Missing, Directory}
                    /\ k \in DOMAIN later
                    /\ later[k] # outcomes[p][1].vars[k]

\* The map the generation's decoder gives for a file content.
DecodedMapOf(content) ==
    IF variant = "pf" THEN parseDotenv_pf(content) ELSE parseDotenv_sb(content)

\* C26: for every file of the ordered list that exists and is readable, the
\* outcome is successful and its count is the number of keys of the file's
\* decoded map, which is 0 for a file that is empty or holds only comments
\* and blank lines.
C26_ReadableFileSucceeds ==
    [][\A p \in Invocations : OutcomeAdded(p) =>
          LET o == outcomes'[p][Len(outcomes'[p])]
              content == FileAt(o.path)
          IN content \notin {Missing, Directory} =>
                /\ o.success
                /\ o.vars = DecodedMapOf(content)
                /\ o.count = Cardinality(DOMAIN DecodedMapOf(content))
      ]_vars

\* Invocation q has returned {} to the host, after loading or at the guard.
Returned(q) == pc[q] \in {"returned", "skipped"}

\* C27: whenever an invocation of DotEnvPlugin has returned, the load run of
\* its guard period has finished applying every loadable file: an invocation
\* that the load guard skips while another invocation is still loading does
\* not return before that load completes.
C27_ReturnAfterLoadComplete ==
    \A q \in Invocations : Returned(q) =>
        \A p \in Invocations : (Loader(p) /\ epoch[p] = epoch[q]) =>
            /\ pc[p] \in {"returned", "threw"}
            /\ pc[p] = "returned" =>
                  Len(outcomes[p]) = Len(OrderedFileList(config[p]))

----------------------------------------------------------------------------
(* Claims about unescaping.                                                *)

\* C29: decoding the body of a closed double-quoted value equals one pass
\* from left to right in which each backslash pairs with the character after
\* it, as in the search for the closing quote: each pair is decoded once and
\* its output is never scanned again, so an escaped backslash followed by
\* the letter n, r or t decodes to a backslash followed by that letter.
C29_OnePassUnescape ==
    (/\ ValueDecoded
     /\ StartsWith(TrimmedArg, <<DQ>>)
     /\ ClosingQuote(TrimmedArg, DQ) # 0) =>
        decodedValue =
            OnePassDecode(SubSeq(TrimmedArg, 2, ClosingQuote(TrimmedArg, DQ) - 1))

----------------------------------------------------------------------------
(* The profiler on its own: recordFileLoad, initStart and resetPlugin       *)
(* called in any order on the exported globalProfiler.                     *)

MaxMetrics == 3
VarCounts == 0..2
MetricPaths == {HomeEnvFile, CwdSideFile}

InitProfiler ==
    /\ rawPath = <<>>
    /\ pathResult = Pending
    /\ homeDir = Home
    /\ cwdDir = Cwd
    /\ NoParseCall
    /\ MainStart("pf", DocMissing, DocMissing)

\* globalProfiler.recordFileLoad(path, duration, varCount, success)
RecordFileLoadCall ==
    /\ Len(fileMetrics) < MaxMetrics
    /\ \E path \in MetricPaths, varCount \in VarCounts, success \in BOOLEAN :
          /\ recordFileLoad(path, varCount, success)
          /\ measures' = IF success THEN record(measures, "file.load") ELSE measures
    /\ UNCHANGED <<logVars, parseVars, pathVars,
                   dirVars, diskVars, env, loadGuard, loggingEnabled,
                   procVars, resets, writes, initState, profConfigPath>>

\* globalProfiler.initStart()
InitStartCall ==
    /\ initState = "idle"
    /\ initState' = "loading"
    /\ UNCHANGED <<logVars, parseVars, pathVars,
                   dirVars, diskVars, env, loadGuard, loggingEnabled,
                   procVars, resets, writes, fileMetrics, totalVars, measures,
                   profConfigPath>>

NextProfiler == RecordFileLoadCall \/ InitStartCall \/ Reset_pf

SpecProfiler == InitProfiler /\ [][NextProfiler]_vars

----------------------------------------------------------------------------
(* Claims about the profiler.                                              *)

RECURSIVE SuccessfulVars(_)
\* The sum of varCount over the successful metrics.
SuccessfulVars(ms) ==
    IF ms = <<>> THEN 0
    ELSE (IF ms[1].success THEN ms[1].varCount ELSE 0) + SuccessfulVars(Tail(ms))

\* The number of successful metrics.
SuccessfulLoads(ms) == Cardinality({i \in 1..Len(ms) : ms[i].success})

\* C30: after any sequence of recordFileLoad and reset calls, totalVars is
\* the sum of varCount over the recorded file metrics with success = true,
\* the number of "file.load" measurements is the number of those metrics,
\* and a reset leaves the profiler idle with no metrics, no measurements and
\* totalVars 0.
C30_ProfilerTotals ==
    /\ [](/\ totalVars = SuccessfulVars(fileMetrics)
          /\ measures["file.load"] = SuccessfulLoads(fileMetrics))
    /\ [][resets' # resets =>
             /\ fileMetrics' = <<>>
             /\ totalVars' = 0
             /\ measures' = NoMeasures
             /\ initState' = "idle"
       ]_vars

\* C30 witness: after a reset, a failed load with a count and a successful
\* load are recorded: totalVars is the successful count alone.
C30_Witness ==
    /\ resets = 1
    /\ Len(fileMetrics) = 2
    /\ ~fileMetrics[1].success
    /\ fileMetrics[1].varCount = 2
    /\ fileMetrics[2].success
    /\ fileMetrics[2].varCount = 1
    /\ totalVars = 1
    /\ measures["file.load"] = 1

----------------------------------------------------------------------------
(* Runs over a configuration that changes: between or during the runs a    *)
(* config file may be removed.                                             *)

\* A config file is removed.
RemoveConfig ==
    /\ writes < MaxWrites
    /\ writes' = writes + 1
    /\ \E name \in {"local", "global"} :
          /\ cfgFs[name] # DocMissing
          /\ cfgFs' = [cfgFs EXCEPT ![name] = DocMissing]
    /\ UNCHANGED <<logVars, parseVars, pathVars,
                   dirVars, variant, fs, env, loadGuard, loggingEnabled,
                   procVars, resets, profilerVars>>

NextRerun ==
    \/ \E p \in Invocations : Invoke_pf(p)
    \/ \E p \in Invocations : ReadCandidate_pf(p)
    \/ \E p \in Invocations : LoadFile_pf(p)
    \/ Reset_pf
    \/ \E p \in Invocations : Invoke_sb(p)
    \/ \E p \in Invocations : LoadConfig_sb(p)
    \/ \E p \in Invocations : Exists_sb(p)
    \/ \E p \in Invocations : Text_sb(p)
    \/ \E p \in Invocations : Flush_sb(p)
    \/ Reset_sb
    \/ WriteFile
    \/ RemoveConfig

SpecRerun == Init /\ [][NextRerun]_vars

----------------------------------------------------------------------------
(* Claims about what one run leaves to the next.                           *)

\* loggingEnabled as the module is loaded, before any run.
InitialLogging == variant = "sb"

\* Whether a first-ever run switches logging on with document doc.
LoggingOf(doc) ==
    IF variant = "pf" THEN doc.logging = "true" ELSE doc.logging # "false"

\* C23: no state other than the load guard carries over between resolution
\* runs: when a run has resolved its configuration, first run or run after
\* a reset, the configuration and the logging switch are those of a
\* first-ever run on the config files present at that moment: they come from
\* the first valid candidate, or are the defaults when there is none.
C23_NoCarryOver ==
    [][\A q \in Invocations : (~HasConfig(q) /\ HasConfig(q)') =>
          IF ValidCandidates # {}
            THEN LET doc == cfgFs[Candidates[FirstValid]]
                 IN /\ config'[q] = configOf(doc)
                    /\ loggingEnabled' = LoggingOf(doc)
            ELSE /\ config'[q] = DefaultConfig
                 /\ loggingEnabled' = InitialLogging
      ]_vars

----------------------------------------------------------------------------
(* Diagnostic logging. The guarded generation buffers its messages and     *)
(* writes them with flushLogs, which reads LOG_FILE and writes it back     *)
(* with the messages added; the profiler generation starts one promise     *)
(* chain per message (mkdir, then appendFile). Messages are numbered in    *)
(* the order of the calls that accepted them. The profiler generation is   *)
(* modelled outside the test environment (isTestEnv false), where log()    *)
(* writes.                                                                 *)

\* n calls of logToFile / log made one after another while loggingEnabled
\* has the value enabled, `from` messages having been accepted before: the
\* messages accepted
Accepted(enabled, from, n) ==
    IF enabled THEN [i \in 1..n |-> from + i] ELSE <<>>

\* flushLogs up to its first await: an empty buffer returns at once,
\* otherwise the buffer is taken and file.exists() is under way
FlushCall(p, msgs, awaited) ==
    IF msgs = <<>> THEN {}
    ELSE {[by |-> p, msgs |-> msgs, stage |-> "exists", existing |-> <<>>,
           awaited |-> awaited]}

\* log() of the profiler generation: the promise chain of one message, its
\* mkdir under way
LogChain(p, m) ==
    [by |-> p, msgs |-> <<m>>, stage |-> "mkdir", existing |-> <<>>,
     awaited |-> FALSE]

\* The logToFile calls of one step of the guarded generation. The calls
\* loadConfig or loadDotenvFile makes before it returns (n1 of them) are
\* flushed by the microtask they queued, which runs before the plugin
\* resumes; the calls the plugin makes after that (n2 of them) are flushed
\* by their own microtask at the next await, or by the plugin's own
\* flushLogs() call when that await is the final one.
LogCalls_sb(p, n1, e1, n2, e2, awaited) ==
    LET first == Accepted(e1, msgCount, n1)
        second == Accepted(e2, msgCount + Len(first), n2)
    IN /\ msgCount' = msgCount + Len(first) + Len(second)
       /\ inFlight' = inFlight \cup FlushCall(p, first, FALSE)
                               \cup FlushCall(p, second, awaited)
       /\ UNCHANGED <<logFile, logFailed>>

\* The log calls of one step of the profiler generation
LogCalls_pf(p, n, enabled) ==
    LET msgs == Accepted(enabled, msgCount, n)
    IN /\ msgCount' = msgCount + Len(msgs)
       /\ inFlight' = inFlight \cup {LogChain(p, msgs[i]) : i \in 1..Len(msgs)}
       /\ UNCHANGED <<logFile, logFailed>>

\* The logToFile calls of the plugin between position i and the position j
\* it stops at: one "SECURITY: Rejected path" per entry skipped, then
\* "Loading: ...", "Loading cwd: ..." or "Plugin finished"
AdvanceLogs(cfg, i, j) ==
    (IF i > Len(cfg.files) THEN 0
     ELSE (IF j > Len(cfg.files) THEN CwdTurn(cfg) ELSE j) - i) + 1

\* DotEnvPlugin up to its first await, with logToFile("Plugin started")
InvokeLogged_sb(p) ==
    /\ InvokeCore_sb(p)
    /\ LogCalls_sb(p, 0, loggingEnabled,
                   IF pc'[p] = "skipped" THEN 0 ELSE 1, loggingEnabled, FALSE)

\* loadConfig and the plugin up to the first file it loads, with their
\* logToFile calls: "Invalid config format" for a file that is there but
\* has no files array, then "Config loaded" and what the loop logs
LoadConfigLogged_sb(p) ==
    /\ LoadConfigCore_sb(p)
    /\ LET doc == cfgFs[configPath_sb]
       IN LogCalls_sb(p,
                      IF doc.kind # "missing" /\ ~ConfigValid_sb(doc) THEN 1 ELSE 0,
                      loggingEnabled,
                      1 + AdvanceLogs(config'[p], 1, next'[p]),
                      loggingEnabled',
                      pc'[p] = "flush")

\* loadDotenvFile's file.exists(), with "File not found" and what the
\* plugin logs next
ExistsLogged_sb(p) ==
    /\ ExistsCore_sb(p)
    /\ IF pc'[p] = "text"
         THEN UNCHANGED logVars
         ELSE LogCalls_sb(p, 1, loggingEnabled,
                          AdvanceLogs(config[p], next[p] + 1, next'[p]),
                          loggingEnabled, pc'[p] = "flush")

\* loadDotenvFile's file.text(), with "Failed to load" or "Loaded n vars"
\* and what the plugin logs next
TextLogged_sb(p) ==
    /\ TextCore_sb(p)
    /\ LET loaded == outcomes'[p][Len(outcomes'[p])].success
       IN LogCalls_sb(p, IF loaded THEN 0 ELSE 1, loggingEnabled,
                      (IF loaded THEN 1 ELSE 0)
                         + AdvanceLogs(config[p], next[p] + 1, next'[p]),
                      loggingEnabled, pc'[p] = "flush")

\* return {} once the flushLogs() call the plugin awaits has completed
ReturnLogged_sb(p) ==
    /\ \A f \in inFlight : ~(f.by = p /\ f.awaited)
    /\ FlushCore_sb(p)
    /\ UNCHANGED logVars

\* A plausible slip: flushLogs passes the error on to its caller.
FlushCatch_Rethrown(f) ==
    /\ loggingEnabled' = FALSE
    /\ pc' = IF f.awaited THEN [pc EXCEPT ![f.by] = "threw"] ELSE pc

\* flushLogs' catch block: loggingEnabled = false, nothing is thrown
FlushCatch(f) ==
    /\ loggingEnabled' = FALSE
    /\ UNCHANGED pc

\* What a step of a log write leaves alone
LogWriteFrame ==
    UNCHANGED <<parseVars, pathVars, dirVars, diskVars, env, loadGuard, cand,
                config, configPath, filesToLoad, next, outcomes, reads, epoch,
                resets, writes, profilerVars, msgCount>>

\* flushLogs: await file.exists() completes
FlushExists(f) ==
    /\ variant = "sb"
    /\ f.stage = "exists"
    /\ inFlight' = (inFlight \ {f}) \cup
          {[f EXCEPT !.stage = IF logFile.exists THEN "text" ELSE "write"]}
    /\ UNCHANGED <<logFile, logFailed, loggingEnabled, pc>>
    /\ LogWriteFrame

\* flushLogs: await file.text() completes, with the content or an error
FlushText(f) ==
    /\ variant = "sb"
    /\ f.stage = "text"
    /\ \E ok \in BOOLEAN :
          IF ok
            THEN /\ inFlight' = (inFlight \ {f}) \cup
                       {[f EXCEPT !.stage = "write", !.existing = logFile.lines]}
                 /\ UNCHANGED <<logFailed, loggingEnabled, pc>>
            ELSE /\ inFlight' = inFlight \ {f}
                 /\ logFailed' = TRUE
                 /\ FlushCatch(f)
    /\ UNCHANGED logFile
    /\ LogWriteFrame

\* flushLogs: await Bun.write(LOG_FILE, existing + messages) completes, the
\* file written or an error
FlushWrite(f) ==
    /\ variant = "sb"
    /\ f.stage = "write"
    /\ inFlight' = inFlight \ {f}
    /\ \E ok \in BOOLEAN :
          IF ok
            THEN /\ logFile' = [exists |-> TRUE, lines |-> f.existing \o f.msgs]
                 /\ UNCHANGED <<logFailed, loggingEnabled, pc>>
            ELSE /\ logFailed' = TRUE
                 /\ FlushCatch(f)
                 /\ UNCHANGED logFile
    /\ LogWriteFrame

\* DotEnvPlugin up to its first await, with log("Plugin started")
InvokeLogged_pf(p) ==
    /\ InvokeCore_pf(p)
    /\ LogCalls_pf(p, IF pc'[p] = "skipped" THEN 0 ELSE 1, loggingEnabled)

\* One candidate read; once loadConfig has returned, "Config loaded" and,
\* unless expandPath throws, "Loading: ..." or "Plugin finished"
ReadCandidateLogged_pf(p) ==
    /\ ReadCandidateCore_pf(p)
    /\ LogCalls_pf(p,
                   IF pc'[p] = "config" THEN 0
                   ELSE IF pc'[p] = "threw" THEN 1 ELSE 2,
                   loggingEnabled')

\* One turn of the loading loop: the message of the load ("Loaded n vars",
\* "Invalid or empty content" or "Failed to load"), then "Loading: ..." or
\* "Plugin finished"
LoadFileLogged_pf(p) ==
    /\ LoadFileCore_pf(p)
    /\ LogCalls_pf(p, 2, loggingEnabled)

\* log(): mkdir(LOG_DIR) completes; an error is swallowed by the catch
LogMkdir(f) ==
    /\ variant = "pf"
    /\ f.stage = "mkdir"
    /\ \E ok \in BOOLEAN :
          IF ok
            THEN /\ inFlight' = (inFlight \ {f}) \cup {[f EXCEPT !.stage = "append"]}
                 /\ UNCHANGED logFailed
            ELSE /\ inFlight' = inFlight \ {f}
                 /\ logFailed' = TRUE
    /\ UNCHANGED <<logFile, loggingEnabled, pc>>
    /\ LogWriteFrame

\* log(): appendFile(LOG_FILE, line) completes; an error is swallowed by
\* the catch
LogAppend(f) ==
    /\ variant = "pf"
    /\ f.stage = "append"
    /\ inFlight' = inFlight \ {f}
    /\ \E ok \in BOOLEAN :
          IF ok
            THEN /\ logFile' = [exists |-> TRUE, lines |-> logFile.lines \o f.msgs]
                 /\ UNCHANGED logFailed
            ELSE /\ logFailed' = TRUE
                 /\ UNCHANGED logFile
    /\ UNCHANGED <<loggingEnabled, pc>>
    /\ LogWriteFrame

NextLog ==
    \/ \E p \in Invocations : InvokeLogged_sb(p)
    \/ \E p \in Invocations : LoadConfigLogged_sb(p)
    \/ \E p \in Invocations : ExistsLogged_sb(p)
    \/ \E p \in Invocations : TextLogged_sb(p)
    \/ \E p \in Invocations : ReturnLogged_sb(p)
    \/ \E f \in inFlight : FlushExists(f)
    \/ \E f \in inFlight : FlushText(f)
    \/ \E f \in inFlight : FlushWrite(f)
    \/ \E p \in Invocations : InvokeLogged_pf(p)
    \/ \E p \in Invocations : ReadCandidateLogged_pf(p)
    \/ \E p \in Invocations : LoadFileLogged_pf(p)
    \/ \E f \in inFlight : LogMkdir(f)
    \/ \E f \in inFlight : LogAppend(f)

SpecLog == Init /\ [][NextLog]_vars

----------------------------------------------------------------------------
(* Claims about diagnostic logging.                                        *)

\* The step completes, or fails, an operation of a log write: nothing is
\* logged in it, and a log write in flight moves on or LOG_FILE changes.
LogWriteStep ==
    /\ msgCount' = msgCount
    /\ inFlight' # inFlight \/ logFile' # logFile \/ logFailed' # logFailed

RECURSIVE EnvAfterLoading(_, _, _)
\* process.env after the files at the paths are loaded in order onto e, as
\* the generation's loadDotenvFile loads them.
EnvAfterLoading(e, paths, prefix) ==
    IF paths = <<>> THEN e
    ELSE LET r == IF variant = "sb" THEN loadResult_sb(paths[1], FileAt(paths[1]))
                  ELSE loadResult_pf(paths[1], FileAt(paths[1]))
         IN EnvAfterLoading(IF r.success THEN ApplyVars(e, r.vars, prefix) ELSE e,
                            Tail(paths), prefix)

\* The run of invocation p is over: it returned, or threw.
RunOver(p) == pc[p] \in {"returned", "threw"}

\* The one error a run raises whatever the log does: expandPath of the
\* profiler generation given a config.files entry that is no string.
EntryThrows(cfg) ==
    variant = "pf" /\ \E i \in 1..Len(cfg.files) : ~IsString(cfg.files[i])

\* C22: diagnostic logging never blocks or fails the main path. No step of
\* a log write, whether it succeeds or fails, changes the environment, the
\* position of a run or what it has loaded; and a run that is over has
\* returned (it threw only on a config.files entry that is no string) with
\* the environment the configured files give, whatever became of the log
\* writes.
C22_LoggingOffMainPath ==
    /\ [][LogWriteStep => UNCHANGED <<env, pc, outcomes, reads, config, next,
                                      filesToLoad, loadGuard>>]_vars
    /\ [](\A p \in Invocations : RunOver(p) =>
             /\ pc[p] = "threw" <=> EntryThrows(config[p])
             /\ pc[p] = "returned" =>
                   env = EnvAfterLoading(InitialEnv, OrderedFileList(config[p]),
                                         PrefixOf(p)))

\* C22 witness: a run that returned after a log write failed, having loaded
\* a file that changed the environment.
C22_Witness ==
    \E p \in Invocations :
        /\ pc[p] = "returned"
        /\ logFailed
        /\ env # InitialEnv
        /\ inFlight = {}

\* The messages LOG_FILE holds when every accepted message is there once,
\* in the order of the calls.
AllMessages == [i \in 1..msgCount |-> i]

\* C28: with buffered logging enabled and every operation on LOG_FILE
\* succeeding, no message is lost: once DotEnvPlugin has returned and every
\* flush that was started has completed, LOG_FILE holds every message given
\* to logToFile during the run, each once, in call order.
C28_NoMessageLost ==
    \A p \in Invocations :
        (/\ variant = "sb"
         /\ pc[p] = "returned"
         /\ inFlight = {}
         /\ loggingEnabled
         /\ ~logFailed) => logFile.lines = AllMessages

====
